---- MODULE Spec2Model ----
(***************************************************************************)
(* Inventory / order simulation engines of the supply-chain games:         *)
(*   "beer"   src/beer-game/BeerGame.jsx      (four roles, human or AI)     *)
(*   "nvidia" src/src/nvidiagame/NvidiaGame.jsx (player + two AI suppliers) *)
(*   "food"   src/unnamed/part_000            (DC + Aryzta + Tyson)         *)
(*   "nv2"    src/unnamed/part_001            (Blackwell + two AI suppliers)*)
(* One game is mounted per behaviour (variable variant); the state of the  *)
(* other games stays at its constructor value.                             *)
(*                                                                         *)
(* Money is counted in half dollars wherever a rate of 0.50 occurs         *)
(* (beer, food), so that every cost is an integer.                         *)
(***************************************************************************)
EXTENDS Integers, Sequences, FiniteSets, TLC

VARIABLES
    variant,        \* which game component is mounted
    apiKey,         \* TRUE iff the API key constant / prompt is non-empty
    devs,           \* number of non-default inputs taken so far
    tx,             \* echelon transitions computed by the last settlement
    ledger,         \* per settled week of the run: the echelon transitions,
                    \* what each pipeline queue was given and what it
                    \* released to its receiver
    \* ---- beer ----
    b_gameState, b_currentWeek, b_turnIndex, b_playerTypes,
    b_isAIThinking, b_aiReasoning, b_history, b_orderInput, b_ai,
    \* ---- nvidia ----
    n_week, n_gameState, n_player, n_suppliers, n_orders, n_errors,
    n_history, n_call,
    \* ---- food ----
    f_week, f_gameOver, f_turnPhase, f_inventory, f_backlog, f_totalCost,
    f_aryztaState, f_tysonState, f_history, f_messages, f_storeOrders,
    f_currentDemand, f_shipments, f_playerOrder, f_seq,
    \* ---- nv2 ----
    v_week, v_gameState, v_turnPhase, v_inventory, v_blackwellBacklog,
    v_userShipments, v_suppliers, v_score, v_history, v_orders,
    v_aiThinking, v_aiReasoning, v_run

nv2Vars == <<v_week, v_gameState, v_turnPhase, v_inventory, v_blackwellBacklog,
             v_userShipments, v_suppliers, v_score, v_history, v_orders,
             v_aiThinking, v_aiReasoning, v_run>>

foodVars == <<f_week, f_gameOver, f_turnPhase, f_inventory, f_backlog,
              f_totalCost, f_aryztaState, f_tysonState, f_history, f_messages,
              f_storeOrders, f_currentDemand, f_shipments, f_playerOrder, f_seq>>

nvidiaVars == <<n_week, n_gameState, n_player, n_suppliers, n_orders,
                n_errors, n_history, n_call>>

beerVars == <<b_gameState, b_currentWeek, b_turnIndex, b_playerTypes,
              b_isAIThinking, b_aiReasoning, b_history, b_orderInput, b_ai>>

\* what a step of one game leaves alone: the configuration and the other games
BeerFrame == UNCHANGED <<variant, apiKey, nvidiaVars, foodVars, nv2Vars>>
NvidiaFrame == UNCHANGED <<variant, apiKey, beerVars, foodVars, nv2Vars>>
FoodFrame == UNCHANGED <<variant, apiKey, beerVars, nvidiaVars, nv2Vars>>
Nv2Frame == UNCHANGED <<variant, apiKey, beerVars, nvidiaVars, foodVars>>

-----------------------------------------------------------------------------
(* Bounds of the exploration *)

\* non-default inputs (orders, AI answers, AI roles) per behaviour
MaxDeviations == 2
\* non-default inputs are only offered in weeks 1..MaxInputWeek
MaxInputWeek == 1

-----------------------------------------------------------------------------
(* JavaScript helpers *)

Min2(a, b) == IF a <= b THEN a ELSE b
Max2(a, b) == IF a >= b THEN a ELSE b

Digits == {"0", "1", "2", "3", "4", "5", "6", "7", "8", "9"}

DigitVal(c) ==
    CASE c = "0" -> 0 [] c = "1" -> 1 [] c = "2" -> 2 [] c = "3" -> 3
      [] c = "4" -> 4 [] c = "5" -> 5 [] c = "6" -> 6 [] c = "7" -> 7
      [] c = "8" -> 8 [] c = "9" -> 9

DigitChar(d) ==
    CASE d = 0 -> "0" [] d = 1 -> "1" [] d = 2 -> "2" [] d = 3 -> "3"
      [] d = 4 -> "4" [] d = 5 -> "5" [] d = 6 -> "6" [] d = 7 -> "7"
      [] d = 8 -> "8" [] d = 9 -> "9"

RECURSIVE ParseDigits(_, _, _)
ParseDigits(s, i, acc) ==
    IF i > Len(s) \/ s[i] \notin Digits
    THEN acc
    ELSE ParseDigits(s, i + 1, acc * 10 + DigitVal(s[i]))

\* parseInt of a text (a sequence of characters): optional sign, then the
\* longest run of digits; NaN when there is no digit.
parseInt(s) ==
    LET signed == Len(s) > 0 /\ s[1] \in {"-", "+"}
        start  == IF signed THEN 2 ELSE 1
        hasDig == start <= Len(s) /\ s[start] \in Digits
        mag    == ParseDigits(s, start, 0)
    IN  IF ~hasDig THEN [nan |-> TRUE, val |-> 0]
        ELSE [nan |-> FALSE,
              val |-> IF signed /\ s[1] = "-" THEN 0 - mag ELSE mag]

\* parseInt(x) || 0
parseIntOr0(s) == IF parseInt(s).nan THEN 0 ELSE parseInt(s).val

RECURSIVE NatToString(_)
NatToString(n) ==
    IF n < 10 THEN <<DigitChar(n)>>
    ELSE NatToString(n \div 10) \o <<DigitChar(n % 10)>>

\* Number.prototype.toString for an integer
toString(n) == IF n < 0 THEN <<"-">> \o NatToString(0 - n) ELSE NatToString(n)

RECURSIVE SumSeq(_, _)
\* reduce((sum, p) => sum + f(p), 0) with f given as a function on indices
SumSeq(f, n) == IF n = 0 THEN 0 ELSE SumSeq(f, n - 1) + f[n]

-----------------------------------------------------------------------------
(* ---------------------------- Beer Game -------------------------------- *)

ROLES == <<"retailer", "wholesaler", "distributor", "manufacturer">>

shippingDelay == 2
orderDelay == 1
totalWeeks == 20
\* CONFIG.costHolding = 0.5 and CONFIG.costBacklog = 1.0, in half dollars
costHolding == 1
costBacklog == 2

\* a consumer demand that keeps growing after week 4
getConsumerDemandRamp(week) == IF week <= 4 THEN 4 ELSE 2 * week

getConsumerDemand(week) == IF week <= 4 THEN 4 ELSE 8

\* a seed without warm-up shipments: no goods are in transit at the start
seedDataNoWarmup ==
    [i \in 1..8 |->
        [week |-> IF i <= 4 THEN -1 ELSE 0,
         roleId |-> ROLES[((i - 1) % 4) + 1],
         inventory |-> 12, backlog |-> 0, orderPlaced |-> 4, shipped |-> 0,
         cost |-> 12]]

\* a seed that holds week 0 only
seedDataWeekZero ==
    [i \in 1..4 |->
        [week |-> 0, roleId |-> ROLES[i],
         inventory |-> 12, backlog |-> 0, orderPlaced |-> 4, shipped |-> 4,
         cost |-> 12]]

\* the seed of the history: weeks -1 and 0, every role at equilibrium
seedData ==
    [i \in 1..8 |->
        [week |-> IF i <= 4 THEN -1 ELSE 0,
         roleId |-> ROLES[((i - 1) % 4) + 1],
         inventory |-> 12, backlog |-> 0, orderPlaced |-> 4, shipped |-> 4,
         cost |-> 12]]

EntryIndexes(h, week, roleId) ==
    {i \in 1..Len(h) : h[i].week = week /\ h[i].roleId = roleId}

hasHistoryEntry(h, week, roleId) == EntryIndexes(h, week, roleId) # {}

\* history.find(...): the first matching entry
getHistoryEntry(h, week, roleId) ==
    LET ix == EntryIndexes(h, week, roleId)
    IN  h[CHOOSE i \in ix : \A j \in ix : i <= j]

getIncomingShipment(h, roleIndex, week) ==
    LET shipmentDelayWeek == week - shippingDelay
    IN  IF roleIndex = 3
        THEN IF hasHistoryEntry(h, shipmentDelayWeek, ROLES[4])
             THEN getHistoryEntry(h, shipmentDelayWeek, ROLES[4]).orderPlaced
             ELSE 4
        ELSE IF hasHistoryEntry(h, shipmentDelayWeek, ROLES[roleIndex + 2])
             THEN getHistoryEntry(h, shipmentDelayWeek, ROLES[roleIndex + 2]).shipped
             ELSE 4

\* a getIncomingDemand without the order delay: the order of the same week
getIncomingDemandSameWeek(h, roleIndex, week) ==
    IF roleIndex = 0 THEN getConsumerDemand(week)
    ELSE IF hasHistoryEntry(h, week, ROLES[roleIndex])
         THEN getHistoryEntry(h, week, ROLES[roleIndex]).orderPlaced
         ELSE 4

getIncomingDemand(h, roleIndex, week) ==
    IF roleIndex = 0 THEN getConsumerDemand(week)
    ELSE LET orderDelayWeek == week - orderDelay
         IN  IF hasHistoryEntry(h, orderDelayWeek, ROLES[roleIndex])
             THEN getHistoryEntry(h, orderDelayWeek, ROLES[roleIndex]).orderPlaced
             ELSE 4

\* steps 1-4 of processTurn: the echelon transition of one role for one week
BeerTransition(h, roleIndex, week) ==
    LET prevWeekData     == getHistoryEntry(h, week - 1, ROLES[roleIndex + 1])
        shipmentReceived == getIncomingShipment(h, roleIndex, week)
        demandReceived   == getIncomingDemand(h, roleIndex, week)
        totalAvailable   == prevWeekData.inventory + shipmentReceived
        totalToShip      == demandReceived + prevWeekData.backlog
        actuallyShipped  == Min2(totalAvailable, totalToShip)
        newInventory     == totalAvailable - actuallyShipped
        newBacklog       == totalToShip - actuallyShipped
    IN  [echelon |-> ROLES[roleIndex + 1], week |-> week,
         priorInventory |-> prevWeekData.inventory,
         arriving |-> shipmentReceived,
         incoming |-> demandReceived,
         priorBacklog |-> prevWeekData.backlog,
         shipped |-> actuallyShipped,
         newInventory |-> newInventory,
         newBacklog |-> newBacklog]

\* step 5 of processTurn: the entry committed to the history
BeerEntry(t, orderAmount) ==
    [week |-> t.week, roleId |-> t.echelon,
     inventory |-> t.newInventory, backlog |-> t.newBacklog,
     orderPlaced |-> orderAmount, shipped |-> t.shipped,
     cost |-> t.newInventory * costHolding + t.newBacklog * costBacklog]

\* what the user can type into the order box; the default is the demand the
\* role has just received, which its screen shows
BeerDefaultInput ==
    toString(getIncomingDemand(b_history, b_turnIndex, b_currentWeek))
BeerOtherInputs == {<<"8">>, <<"-", "3">>, <<"a", "b">>}

\* what the remote model can answer: a JSON object with an integer order,
\* a JSON object without one, or no usable answer at all (network error,
\* non-JSON body), which getAITurn's catch turns into the fallback
BeerDefaultAnswer == [kind |-> "json", hasOrder |-> TRUE, order |-> 4]
BeerOtherAnswers ==
    { [kind |-> "json", hasOrder |-> TRUE, order |-> -3],
      [kind |-> "json", hasOrder |-> FALSE, order |-> 0],
      [kind |-> "error", hasOrder |-> FALSE, order |-> 0] }

NoDecision == [src |-> "none", hasOrder |-> FALSE, order |-> 0]

\* getAITurn (beer): the decision returned for an answer of the service
BeerGetAITurn(answer, incomingDemand) ==
    IF answer.kind = "error"
    THEN [src |-> "fallback", hasOrder |-> TRUE, order |-> incomingDemand]
    ELSE [src |-> "ai", hasOrder |-> answer.hasOrder, order |-> answer.order]

BeerIdle == [phase |-> "idle", turnIndex |-> 0, week |-> 0, hist |-> <<>>,
             decision |-> NoDecision]

CanDeviate(week) == devs < MaxDeviations /\ week <= MaxInputWeek

BeerInit ==
    /\ b_gameState = "INTRO"
    /\ b_currentWeek = 1
    /\ b_turnIndex = 0
    /\ b_playerTypes = [r \in {ROLES[i] : i \in 1..4} |-> "HUMAN"]
    /\ b_isAIThinking = FALSE
    /\ b_aiReasoning = "null"
    /\ b_history = seedData
    /\ b_orderInput = <<>>
    /\ b_ai = BeerIdle

handleStartSetup ==
    /\ variant = "beer"
    /\ BeerFrame
    /\ b_gameState \in {"INTRO", "GAME_OVER"}
    /\ b_gameState' = "SETUP"
    /\ UNCHANGED <<b_currentWeek, b_turnIndex, b_playerTypes, b_isAIThinking,
                   b_aiReasoning, b_history, b_orderInput, b_ai, devs, tx, ledger>>

setPlayerTypes(r, t) ==
    /\ variant = "beer"
    /\ BeerFrame
    /\ b_gameState = "SETUP"
    /\ b_playerTypes[r] # t
    /\ IF t = "AI"
       THEN devs < MaxDeviations /\ devs' = devs + 1
       ELSE devs' = devs
    /\ b_playerTypes' = [b_playerTypes EXCEPT ![r] = t]
    /\ UNCHANGED <<b_gameState, b_currentWeek, b_turnIndex, b_isAIThinking,
                   b_aiReasoning, b_history, b_orderInput, b_ai, tx, ledger>>

handleStartGame ==
    /\ variant = "beer"
    /\ BeerFrame
    /\ b_gameState = "SETUP"
    /\ b_gameState' = "HANDOFF"
    /\ b_currentWeek' = 1
    /\ b_turnIndex' = 0
    /\ b_history' = seedData
    /\ UNCHANGED <<b_playerTypes, b_isAIThinking, b_aiReasoning, b_orderInput,
                   b_ai, devs, tx, ledger>>

\* the button of the HANDOFF screen
BeerHandoffClick ==
    /\ variant = "beer"
    /\ BeerFrame
    /\ b_gameState = "HANDOFF"
    /\ b_gameState' = "PLAY"
    /\ UNCHANGED <<b_currentWeek, b_turnIndex, b_playerTypes, b_isAIThinking,
                   b_aiReasoning, b_history, b_orderInput, b_ai, devs, tx, ledger>>

\* the 1 s timer that skips the HANDOFF screen for an AI role
BeerAutoStart ==
    /\ variant = "beer"
    /\ BeerFrame
    /\ b_gameState = "HANDOFF"
    /\ b_playerTypes[ROLES[b_turnIndex + 1]] = "AI"
    /\ b_gameState' = "PLAY"
    /\ UNCHANGED <<b_currentWeek, b_turnIndex, b_playerTypes, b_isAIThinking,
                   b_aiReasoning, b_history, b_orderInput, b_ai, devs, tx, ledger>>

\* onChange of the order box (rendered for a human role only)
BeerTypeOrder(s) ==
    /\ variant = "beer"
    /\ BeerFrame
    /\ b_gameState = "PLAY"
    /\ b_playerTypes[ROLES[b_turnIndex + 1]] = "HUMAN"
    /\ b_orderInput # s
    /\ IF s = BeerDefaultInput
       THEN devs' = devs
       ELSE CanDeviate(b_currentWeek) /\ devs' = devs + 1
    /\ b_orderInput' = s
    /\ UNCHANGED <<b_gameState, b_currentWeek, b_turnIndex, b_playerTypes,
                   b_isAIThinking, b_aiReasoning, b_history, b_ai, tx, ledger>>

\* a history that keeps the latest entries only, like the message log
appendHistoryWindow(prev, newEntry) ==
    LET all == Append(prev, newEntry)
    IN  SubSeq(all, Max2(1, Len(all) - 11), Len(all))

\* setHistory(prev => [...prev, newEntry])
appendHistory(prev, newEntry) == Append(prev, newEntry)

\* a processTurn that hands the turn back to the role that has just played
processTurnSameRole(h, ti, wk, orderAmount) ==
    IF ~hasHistoryEntry(h, wk - 1, ROLES[ti + 1])
    THEN UNCHANGED <<b_history, b_orderInput, b_aiReasoning, b_turnIndex,
                     b_gameState, tx, ledger>>
    ELSE LET t == BeerTransition(h, ti, wk)
         IN  /\ b_history' = appendHistory(b_history, BeerEntry(t, orderAmount))
             /\ tx' = {t}
             /\ ledger' = ledger
             /\ b_orderInput' = <<>>
             /\ b_aiReasoning' = "null"
             /\ b_turnIndex' = b_turnIndex
             /\ b_gameState' = "HANDOFF"

\* processTurn(orderAmount), run in the closure of a render whose history,
\* turnIndex and currentWeek were h, ti and wk
processTurn(h, ti, wk, orderAmount) ==
    IF ~hasHistoryEntry(h, wk - 1, ROLES[ti + 1])
    THEN \* prevWeekData.inventory throws before any state is set
         UNCHANGED <<b_history, b_orderInput, b_aiReasoning, b_turnIndex,
                     b_gameState, tx, ledger>>
    ELSE LET t == BeerTransition(h, ti, wk)
         IN  /\ b_history' = appendHistory(b_history, BeerEntry(t, orderAmount))
             /\ tx' = {t}
             /\ ledger' = ledger
             /\ b_orderInput' = <<>>
             /\ b_aiReasoning' = "null"
             /\ IF ti < 3
                THEN b_turnIndex' = b_turnIndex + 1 /\ b_gameState' = "HANDOFF"
                ELSE b_turnIndex' = b_turnIndex /\ b_gameState' = "SUMMARY"

\* the guard of submitTurn: the typed text is an order
BeerInputAccepted(s) == ~parseInt(s).nan /\ ~(parseInt(s).val < 0)

submitTurn ==
    /\ variant = "beer"
    /\ BeerFrame
    /\ b_gameState = "PLAY"
    /\ b_playerTypes[ROLES[b_turnIndex + 1]] = "HUMAN"
    /\ IF BeerInputAccepted(b_orderInput)
       THEN processTurn(b_history, b_turnIndex, b_currentWeek,
                        parseInt(b_orderInput).val)
       ELSE UNCHANGED <<b_history, b_orderInput, b_aiReasoning, b_turnIndex,
                        b_gameState, tx, ledger>>
    /\ UNCHANGED <<b_currentWeek, b_playerTypes, b_isAIThinking, b_ai, devs>>

\* an AI effect that does not look at isAIThinking
BeerAIRequestAgain ==
    /\ variant = "beer"
    /\ BeerFrame
    /\ b_gameState = "PLAY"
    /\ b_playerTypes[ROLES[b_turnIndex + 1]] = "AI"
    /\ b_isAIThinking' = TRUE
    /\ b_ai' = [phase |-> "pending", turnIndex |-> b_turnIndex,
                week |-> b_currentWeek, hist |-> b_history,
                decision |-> NoDecision]
    /\ UNCHANGED <<b_gameState, b_currentWeek, b_turnIndex, b_playerTypes,
                   b_aiReasoning, b_history, b_orderInput, devs, tx, ledger>>

\* the AI effect: issue the request for the role whose turn it is
BeerAIRequest ==
    /\ variant = "beer"
    /\ BeerFrame
    /\ b_gameState = "PLAY"
    /\ b_playerTypes[ROLES[b_turnIndex + 1]] = "AI"
    /\ ~b_isAIThinking
    /\ b_isAIThinking' = TRUE
    /\ b_ai' = [phase |-> "pending", turnIndex |-> b_turnIndex,
                week |-> b_currentWeek, hist |-> b_history,
                decision |-> NoDecision]
    /\ UNCHANGED <<b_gameState, b_currentWeek, b_turnIndex, b_playerTypes,
                   b_aiReasoning, b_history, b_orderInput, devs, tx, ledger>>

\* the service answers and getAITurn's promise resolves
BeerAIAnswer(answer) ==
    /\ variant = "beer"
    /\ BeerFrame
    /\ b_ai.phase = "pending"
    /\ IF answer = BeerDefaultAnswer
       THEN devs' = devs
       ELSE CanDeviate(b_ai.week) /\ devs' = devs + 1
    /\ b_ai' = [b_ai EXCEPT
                  !.phase = "resolved",
                  !.decision = BeerGetAITurn(answer,
                      getIncomingDemand(b_ai.hist, b_ai.turnIndex, b_ai.week))]
    /\ UNCHANGED <<b_gameState, b_currentWeek, b_turnIndex, b_playerTypes,
                   b_isAIThinking, b_aiReasoning, b_history, b_orderInput, tx, ledger>>

\* first timer (1 s): show the decision; decision.order.toString() throws
\* when the answer has no order, and the second timer is never started
BeerAIShow ==
    /\ variant = "beer"
    /\ BeerFrame
    /\ b_ai.phase = "resolved"
    /\ b_aiReasoning' = b_ai.decision.src
    /\ IF b_ai.decision.hasOrder
       THEN /\ b_orderInput' = toString(b_ai.decision.order)
            /\ b_ai' = [b_ai EXCEPT !.phase = "shown"]
       ELSE /\ b_orderInput' = b_orderInput
            /\ b_ai' = [b_ai EXCEPT !.phase = "thrown"]
    /\ UNCHANGED <<b_gameState, b_currentWeek, b_turnIndex, b_playerTypes,
                   b_isAIThinking, b_history, devs, tx, ledger>>

\* second timer (2 s): processTurn(decision.order); setIsAIThinking(false)
BeerAISubmit ==
    /\ variant = "beer"
    /\ BeerFrame
    /\ b_ai.phase = "shown"
    /\ processTurn(b_ai.hist, b_ai.turnIndex, b_ai.week, b_ai.decision.order)
    /\ b_isAIThinking' = FALSE
    /\ b_ai' = [b_ai EXCEPT !.phase = "idle"]
    /\ UNCHANGED <<b_currentWeek, b_playerTypes, devs>>

\* a startNextWeek that leaves the turn with the manufacturer
startNextWeekKeepTurn ==
    /\ variant = "beer"
    /\ BeerFrame
    /\ b_gameState = "SUMMARY"
    /\ IF b_currentWeek >= totalWeeks
       THEN /\ b_gameState' = "GAME_OVER"
            /\ UNCHANGED <<b_currentWeek, b_turnIndex>>
       ELSE /\ b_currentWeek' = b_currentWeek + 1
            /\ b_turnIndex' = b_turnIndex
            /\ b_gameState' = "HANDOFF"
    /\ UNCHANGED <<b_playerTypes, b_isAIThinking, b_aiReasoning, b_history,
                   b_orderInput, b_ai, devs, tx, ledger>>

startNextWeek ==
    /\ variant = "beer"
    /\ BeerFrame
    /\ b_gameState = "SUMMARY"
    /\ IF b_currentWeek >= totalWeeks
       THEN /\ b_gameState' = "GAME_OVER"
            /\ UNCHANGED <<b_currentWeek, b_turnIndex>>
       ELSE /\ b_currentWeek' = b_currentWeek + 1
            /\ b_turnIndex' = 0
            /\ b_gameState' = "HANDOFF"
    /\ UNCHANGED <<b_playerTypes, b_isAIThinking, b_aiReasoning, b_history,
                   b_orderInput, b_ai, devs, tx, ledger>>

BeerNext ==
    \/ handleStartSetup
    \/ \E r \in {ROLES[i] : i \in 1..4}, t \in {"HUMAN", "AI"} : setPlayerTypes(r, t)
    \/ handleStartGame
    \/ BeerHandoffClick
    \/ BeerAutoStart
    \/ \E s \in {BeerDefaultInput} \cup BeerOtherInputs : BeerTypeOrder(s)
    \/ submitTurn
    \/ BeerAIRequest
    \/ \E a \in {BeerDefaultAnswer} \cup BeerOtherAnswers : BeerAIAnswer(a)
    \/ BeerAIShow
    \/ BeerAISubmit
    \/ startNextWeek

-----------------------------------------------------------------------------
(* ------------------------ Nvidia (NvidiaGame.jsx) ---------------------- *)

MAX_WEEKS == 20
LEAD_TIME == 2
HOLDING_COST_PER_UNIT == 50
BACKLOG_COST_PER_UNIT == 500
INITIAL_INVENTORY == 400
COMPONENT_CAPACITY_PER_WEEK == 2000

DEMAND_SCHEDULE ==
    << 200, 250, 300, 400, 500,
       800, 1000, 1200, 1100, 900,
       800, 850, 900, 1000, 1200,
       1300, 1400, 1200, 1000, 800 >>

Components == {"cowos", "hbm"}

\* DEMAND_SCHEDULE[week - 1] || 0
NvMarketDemand(week) ==
    IF week >= 1 /\ week <= Len(DEMAND_SCHEDULE) THEN DEMAND_SCHEDULE[week] ELSE 0

RECURSIVE SumArriving(_, _, _)
\* pipeline.filter(p => p.arrivalWeek === week).reduce(sum + p.amount), over
\* the first n entries
SumArriving(pipeline, week, n) ==
    IF n = 0 THEN 0
    ELSE SumArriving(pipeline, week, n - 1)
         + (IF pipeline[n].arrivalWeek = week THEN pipeline[n].amount ELSE 0)

RECURSIVE SumArrivingOf(_, _, _, _)
\* the same with the additional filter p.type === type
SumArrivingOf(pipeline, type, week, n) ==
    IF n = 0 THEN 0
    ELSE SumArrivingOf(pipeline, type, week, n - 1)
         + (IF pipeline[n].type = type /\ pipeline[n].arrivalWeek = week
            THEN pipeline[n].amount ELSE 0)

\* the texts the player can type into an order box
NvOtherInputs == {<<"2", "0", "0", "0">>, <<"-", "5">>, <<"2", "5", "0", "0">>, <<>>}

\* the answers of the remote model (only asked when a key is configured)
NvDefaultAnswer == [kind |-> "json", hasOrder |-> TRUE, order |-> 400]
NvOtherAnswers ==
    { [kind |-> "json", hasOrder |-> TRUE, order |-> -50],
      [kind |-> "json", hasOrder |-> TRUE, order |-> 2500],
      [kind |-> "error", hasOrder |-> FALSE, order |-> 0] }

validateOrder(value) ==
    LET val == parseIntOr0(value)
    IN  IF val < 0 THEN "Cannot order negative units."
        ELSE IF val > COMPONENT_CAPACITY_PER_WEEK THEN "Max order"
        ELSE ""

\* getAITurn (nvidia)
NvGetAITurn(hasKey, answer, backlog, incomingDemand) ==
    IF ~hasKey
    THEN [src |-> "nokey", hasOrder |-> TRUE, order |-> incomingDemand]
    ELSE IF answer.kind = "error"
    THEN [src |-> "fallback", hasOrder |-> TRUE,
          order |-> incomingDemand + (backlog \div 2)]
    ELSE [src |-> "ai", hasOrder |-> TRUE,
          order |-> Max2(0, Min2(answer.order, COMPONENT_CAPACITY_PER_WEEK))]

\* a supplier that ships everything it owes, whatever it has in stock
shippedToPlayerAll(availableInventory, totalDemand) == totalDemand

\* updateSupplier: const shippedToPlayer = Math.min(availableInventory, totalDemand)
shippedToPlayer(availableInventory, totalDemand) ==
    Min2(availableInventory, totalDemand)

\* a production order that is due one week late
newPipelineItemLate(week, aiDecision) ==
    [arrivalWeek |-> week + LEAD_TIME + 1, amount |-> aiDecision.order]

\* updateSupplier: the production order placed into the supplier's pipeline
newPipelineItem(week, aiDecision) ==
    [arrivalWeek |-> week + LEAD_TIME, amount |-> aiDecision.order]

\* updateSupplier: the quantities it computes for one supplier and one week
NvSupplierTransition(sup, key, week, playerOrder) ==
    LET arrivingRaw == SumArriving(sup.pipeline, week, Len(sup.pipeline))
        availableInventory == sup.inventory + arrivingRaw
        totalDemand == playerOrder + sup.backlog
        shipped == shippedToPlayer(availableInventory, totalDemand)
        newBacklog == totalDemand - shipped
        newInventory == availableInventory - shipped
    IN  [echelon |-> key, week |-> week,
         priorInventory |-> sup.inventory,
         arriving |-> arrivingRaw,
         incoming |-> playerOrder,
         priorBacklog |-> sup.backlog,
         shipped |-> shipped,
         newInventory |-> newInventory,
         newBacklog |-> newBacklog]

\* updateSupplier: the supplier state it returns, t being its transition
updateSupplier(sup, t, aiDecision) ==
    [sup EXCEPT !.inventory = t.newInventory,
                !.backlog = t.newBacklog,
                !.pipeline = Append(sup.pipeline,
                                    newPipelineItem(t.week, aiDecision)),
                !.lastOrder = aiDecision.order,
                !.reasoning = aiDecision.src,
                !.lastShipped = t.shipped]

\* a player phase in which only the CoWoS stock limits the assembly
NvPlayerTransitionCowosOnly(player, week) ==
    LET arriving == [c \in Components |->
                        SumArrivingOf(player.pipeline, c, week, Len(player.pipeline))]
        currentInventory == [c \in Components |-> player.inventory[c] + arriving[c]]
        marketDemand == NvMarketDemand(week)
        totalPlayerDemand == marketDemand + player.backlog
        fulfilled == Min2(currentInventory["cowos"], totalPlayerDemand)
        newPlayerBacklog == totalPlayerDemand - fulfilled
    IN  [c \in Components |->
            [echelon |-> "player", kind |-> c, week |-> week,
             priorInventory |-> player.inventory[c],
             arriving |-> arriving[c],
             incoming |-> marketDemand,
             priorBacklog |-> player.backlog,
             shipped |-> fulfilled,
             newInventory |-> currentInventory[c] - fulfilled,
             newBacklog |-> newPlayerBacklog]]

\* the player phase of finalizeTurn, per component
NvPlayerTransition(player, week) ==
    LET arriving == [c \in Components |->
                        SumArrivingOf(player.pipeline, c, week, Len(player.pipeline))]
        currentInventory == [c \in Components |-> player.inventory[c] + arriving[c]]
        marketDemand == NvMarketDemand(week)
        totalPlayerDemand == marketDemand + player.backlog
        maxProduction == Min2(currentInventory["cowos"], currentInventory["hbm"])
        fulfilled == Min2(maxProduction, totalPlayerDemand)
        newPlayerBacklog == totalPlayerDemand - fulfilled
    IN  [c \in Components |->
            [echelon |-> "player", kind |-> c, week |-> week,
             priorInventory |-> player.inventory[c],
             arriving |-> arriving[c],
             incoming |-> marketDemand,
             priorBacklog |-> player.backlog,
             shipped |-> fulfilled,
             newInventory |-> currentInventory[c] - fulfilled,
             newBacklog |-> newPlayerBacklog]]

NvInitSupplier(name) ==
    [name |-> name, inventory |-> INITIAL_INVENTORY, backlog |-> 0,
     pipeline |-> <<>>, lastOrder |-> 0, reasoning |-> "Waiting", lastShipped |-> 0]

NvInitPlayer ==
    [inventory |-> [c \in Components |-> INITIAL_INVENTORY],
     backlog |-> 0, cash |-> 0, pipeline |-> <<>>]

NvNoCall == [active |-> FALSE, order |-> [c \in Components |-> 0],
             decision |-> [c \in Components |-> NoDecision]]

NvidiaInit ==
    /\ n_week = 1
    /\ n_gameState = "START"
    /\ n_player = NvInitPlayer
    /\ n_suppliers = [c \in Components |->
                        NvInitSupplier(IF c = "cowos" THEN "TSMC" ELSE "SK Hynix")]
    /\ n_orders = [c \in Components |-> <<"0">>]
    /\ n_errors = [c \in Components |-> ""]
    /\ n_history = <<>>
    /\ n_call = NvNoCall

\* the button of the START screen
NvStartClick ==
    /\ variant = "nvidia"
    /\ NvidiaFrame
    /\ n_gameState = "START"
    /\ n_gameState' = "PLAY"
    /\ UNCHANGED <<n_week, n_player, n_suppliers, n_orders, n_errors,
                   n_history, n_call, devs, tx, ledger>>

handleInputChange(type, value) ==
    /\ variant = "nvidia"
    /\ NvidiaFrame
    /\ n_gameState = "PLAY"
    /\ n_orders[type] # value
    /\ CanDeviate(n_week)
    /\ devs' = devs + 1
    /\ n_errors' = [n_errors EXCEPT ![type] = validateOrder(value)]
    /\ n_orders' = [n_orders EXCEPT ![type] = value]
    /\ UNCHANGED <<n_week, n_gameState, n_player, n_suppliers, n_history,
                   n_call, tx, ledger>>

\* a submit button that is never disabled: handlePlayerSubmit in any state
handlePlayerSubmitAnyState ==
    /\ variant = "nvidia"
    /\ NvidiaFrame
    /\ ~n_call.active
    /\ \A c \in Components : n_errors[c] = ""
    /\ LET cowosOrder == parseIntOr0(n_orders["cowos"])
           hbmOrder == parseIntOr0(n_orders["hbm"])
       IN  IF cowosOrder > COMPONENT_CAPACITY_PER_WEEK
              \/ hbmOrder > COMPONENT_CAPACITY_PER_WEEK
           THEN UNCHANGED <<n_gameState, n_call>>
           ELSE /\ n_gameState' = "THINKING"
                /\ n_call' = [active |-> TRUE,
                              order |-> [cowos |-> cowosOrder, hbm |-> hbmOrder],
                              decision |-> [c \in Components |-> NoDecision]]
    /\ UNCHANGED <<n_week, n_player, n_suppliers, n_orders, n_errors,
                   n_history, devs, tx, ledger>>

\* handlePlayerSubmit up to the two getAITurn calls; the button is disabled
\* unless gameState is PLAY and both error texts are empty
handlePlayerSubmit ==
    /\ variant = "nvidia"
    /\ NvidiaFrame
    /\ n_gameState = "PLAY"
    /\ \A c \in Components : n_errors[c] = ""
    /\ LET cowosOrder == parseIntOr0(n_orders["cowos"])
           hbmOrder == parseIntOr0(n_orders["hbm"])
       IN  IF cowosOrder > COMPONENT_CAPACITY_PER_WEEK
              \/ hbmOrder > COMPONENT_CAPACITY_PER_WEEK
           THEN UNCHANGED <<n_gameState, n_call>>
           ELSE /\ n_gameState' = "THINKING"
                /\ n_call' = [active |-> TRUE,
                              order |-> [cowos |-> cowosOrder, hbm |-> hbmOrder],
                              decision |-> [c \in Components |-> NoDecision]]
    /\ UNCHANGED <<n_week, n_player, n_suppliers, n_orders, n_errors,
                   n_history, devs, tx, ledger>>

\* a join that keeps the decisions in the order of their arrival: the promise
\* of supplier c settles and its decision takes the first free place
NvAIAnswerInOrder(c, answer) ==
    /\ variant = "nvidia"
    /\ NvidiaFrame
    /\ n_call.active
    /\ (\E k \in Components : n_call.decision[k].src = "none")
    /\ IF apiKey /\ answer # NvDefaultAnswer
       THEN CanDeviate(n_week) /\ devs' = devs + 1
       ELSE answer = NvDefaultAnswer /\ devs' = devs
    /\ n_call' = [n_call EXCEPT
                    !.decision[IF n_call.decision["cowos"].src = "none"
                               THEN "cowos" ELSE "hbm"] =
                    NvGetAITurn(apiKey, answer, n_suppliers[c].backlog,
                                n_call.order[c])]
    /\ UNCHANGED <<n_week, n_gameState, n_player, n_suppliers, n_orders,
                   n_errors, n_history, tx, ledger>>

\* one of the two getAITurn promises settles
NvAIAnswer(c, answer) ==
    /\ variant = "nvidia"
    /\ NvidiaFrame
    /\ n_call.active
    /\ n_call.decision[c].src = "none"
    /\ IF apiKey /\ answer # NvDefaultAnswer
       THEN CanDeviate(n_week) /\ devs' = devs + 1
       ELSE answer = NvDefaultAnswer /\ devs' = devs
    /\ n_call' = [n_call EXCEPT !.decision[c] =
                    NvGetAITurn(apiKey, answer, n_suppliers[c].backlog,
                                n_call.order[c])]
    /\ UNCHANGED <<n_week, n_gameState, n_player, n_suppliers, n_orders,
                   n_errors, n_history, tx, ledger>>

\* a join that resolves with the first decision (Promise.race)
NvAnySettled(decision) == \E c \in Components : decision[c].src # "none"

\* Promise.all: both decisions are there
NvAllSettled(decision) == \A c \in Components : decision[c].src # "none"

\* finalizeTurn, section 3: history and state updates; st and pt are the
\* supplier and player transitions of the week
NvCommit(week, st, pt, decision) ==
    LET newSup == [c \in Components |->
                      updateSupplier(n_suppliers[c], st[c], decision[c])]
        newPlayerInventory == [c \in Components |-> pt[c].newInventory]
        newPlayerBacklog == pt["cowos"].newBacklog
        holdingCost == (pt["cowos"].newInventory + pt["hbm"].newInventory)
                       * HOLDING_COST_PER_UNIT
        backlogCost == newPlayerBacklog * BACKLOG_COST_PER_UNIT
        weeklyCost == holdingCost + backlogCost
        newTotalCash == n_player.cash + weeklyCost
        newPlayerPipeline ==
            n_player.pipeline \o
            << [arrivalWeek |-> week + LEAD_TIME, type |-> "cowos",
                amount |-> st["cowos"].shipped],
               [arrivalWeek |-> week + LEAD_TIME, type |-> "hbm",
                amount |-> st["hbm"].shipped] >>
        weekStats == [week |-> week, demand |-> NvMarketDemand(week),
                      fulfilled |-> pt["cowos"].shipped,
                      backlog |-> newPlayerBacklog,
                      invCowos |-> pt["cowos"].newInventory,
                      invHbm |-> pt["hbm"].newInventory,
                      cost |-> weeklyCost, cumCost |-> newTotalCash,
                      aiCowosInv |-> st["cowos"].newInventory,
                      aiHbmInv |-> st["hbm"].newInventory]
    IN  /\ n_history' = Append(n_history, weekStats)
        /\ n_player' = [inventory |-> newPlayerInventory,
                        backlog |-> newPlayerBacklog,
                        cash |-> newTotalCash,
                        pipeline |-> newPlayerPipeline]
        /\ n_suppliers' = newSup
        /\ tx' = {st[c] : c \in Components} \cup {pt[c] : c \in Components}
        /\ ledger' = Append(ledger,
              [week |-> week,
               echelons |-> {st[c] : c \in Components} \cup {pt[c] : c \in Components},
               scheduled |-> [supplier_cowos |-> newSup["cowos"].lastOrder,
                              supplier_hbm |-> newSup["hbm"].lastOrder,
                              player_cowos |-> newSup["cowos"].lastShipped,
                              player_hbm |-> newSup["hbm"].lastShipped],
               released |-> [supplier_cowos |-> st["cowos"].arriving,
                             supplier_hbm |-> st["hbm"].arriving,
                             player_cowos |-> pt["cowos"].arriving,
                             player_hbm |-> pt["hbm"].arriving]])
        /\ IF week >= MAX_WEEKS
           THEN n_gameState' = "END" /\ n_week' = n_week
           ELSE n_week' = n_week + 1 /\ n_gameState' = "PLAY"

\* finalizeTurn(cowosOrder, hbmOrder, cowosDecision, hbmDecision), called when
\* the Promise.all of handlePlayerSubmit resolves
finalizeTurn ==
    /\ variant = "nvidia"
    /\ NvidiaFrame
    /\ n_call.active
    /\ NvAllSettled(n_call.decision)
    /\ NvCommit(n_week,
                [c \in Components |->
                    NvSupplierTransition(n_suppliers[c], c, n_week, n_call.order[c])],
                NvPlayerTransition(n_player, n_week),
                n_call.decision)
    /\ n_call' = NvNoCall
    /\ UNCHANGED <<n_orders, n_errors, devs>>

restartGame ==
    /\ variant = "nvidia"
    /\ NvidiaFrame
    /\ n_gameState = "END"
    /\ n_week' = 1
    /\ n_gameState' = "START"
    /\ n_player' = NvInitPlayer
    /\ n_suppliers' = [c \in Components |->
                         [n_suppliers[c] EXCEPT !.inventory = INITIAL_INVENTORY,
                                                !.backlog = 0,
                                                !.pipeline = <<>>,
                                                !.reasoning = "Ready"]]
    /\ n_history' = <<>>
    /\ n_orders' = [c \in Components |-> <<"0">>]
    /\ ledger' = <<>>
    /\ UNCHANGED <<n_errors, n_call, devs, tx>>

NvidiaNext ==
    \/ NvStartClick
    \/ \E c \in Components, v \in NvOtherInputs : handleInputChange(c, v)
    \/ handlePlayerSubmit
    \/ \E c \in Components, a \in {NvDefaultAnswer} \cup NvOtherAnswers : NvAIAnswer(c, a)
    \/ finalizeTurn
    \/ restartGame

-----------------------------------------------------------------------------
(* ----------------------- Fast food (part_000) -------------------------- *)

\* HOLDING_COST = 0.50 and BACKLOG_COST = 2.00, in half dollars
FOOD_HOLDING_COST == 1
FOOD_BACKLOG_COST == 4
PRODUCTION_DELAY == 2

Items == {"buns", "beef", "fish"}

generateInitialInventory == [buns |-> 1500, beef |-> 1000, fish |-> 500]
generateEmptyOrder == [buns |-> 0, beef |-> 0, fish |-> 0]

generateSupplierState(role, initialInv) ==
    [role |-> role, inventory |-> initialInv, backlog |-> 0,
     productionQueue |-> <<>>, lastOrderReceived |-> 0, history |-> <<>>,
     lastReasoning |-> "started", lastProductionOrder |-> 0]

\* a conversion that assigns instead of accumulating: the last store alone
calculateIngredientDemandLastStore(orders) ==
    LET c == orders["storeC"]
    IN  [buns |-> c.bigMacs * 3 + c.filets * 2,
         beef |-> c.bigMacs * 2,
         fish |-> c.filets]

calculateIngredientDemand(orders) ==
    LET a == orders["storeA"]
        b == orders["storeB"]
        c == orders["storeC"]
    IN  [buns |-> (a.bigMacs * 3 + a.filets * 2) + (b.bigMacs * 3 + b.filets * 2)
                  + (c.bigMacs * 3 + c.filets * 2),
         beef |-> a.bigMacs * 2 + b.bigMacs * 2 + c.bigMacs * 2,
         fish |-> a.filets + b.filets + c.filets]

FoodInitialStoreOrders ==
    [storeA |-> [bigMacs |-> 100, filets |-> 20],
     storeB |-> [bigMacs |-> 90, filets |-> 30],
     storeC |-> [bigMacs |-> 110, filets |-> 10]]

FoodInitialHistory ==
    << [week |-> 0, inventory |-> 3000, backlog |-> 0, demand |-> 0] >>

\* the texts the player can type into an order box
FoodOtherInputs == {<<"5", "2", "0", "0">>, <<"7", "0", "0">>, <<"-", "5", "0">>}

\* the answers of the remote model (only asked when a key is configured)
FoodDefaultAnswer == [kind |-> "json", hasOrder |-> TRUE, order |-> 200]
FoodOtherAnswers ==
    { [kind |-> "json", hasOrder |-> TRUE, order |-> -100],
      [kind |-> "error", hasOrder |-> FALSE, order |-> 0] }

\* Math.random() in the demand multiplier 0.8 + random * 0.4, in thousandths
FoodDefaultMultiplier == 1000
FoodOtherMultipliers == {800, 1199}

\* getAITurn (food); the order-up-to target is lastOrderReceived * 1.5 || 200
\* and the order is Math.round(max(0, target - inventory + backlog))
FoodGetAITurn(hasKey, answer, agentState, currentDemandFromPlayer) ==
    IF ~hasKey
    THEN LET twiceTarget == IF agentState.lastOrderReceived * 3 = 0 THEN 400
                            ELSE agentState.lastOrderReceived * 3
             twiceOrder == Max2(0, twiceTarget - 2 * agentState.inventory
                                   + 2 * agentState.backlog)
         IN  [src |-> "nokey", hasOrder |-> TRUE,
              order |-> (twiceOrder + 1) \div 2]
    ELSE IF answer.kind = "error"
    THEN [src |-> "fallback", hasOrder |-> TRUE, order |-> currentDemandFromPlayer]
    ELSE [src |-> "ai", hasOrder |-> answer.hasOrder, order |-> answer.order]

\* a lookup of the production that is off by one week
arrivingProductionLate(productionQueue, week) ==
    LET ix == {i \in 1..Len(productionQueue) :
                  productionQueue[i].weekArrives = week}
    IN  IF ix = {} THEN 0
        ELSE productionQueue[CHOOSE i \in ix : \A j \in ix : i <= j].amount

\* a lookup that yields 4 when no entry of the queue is due
arrivingProductionDefault(productionQueue, week) ==
    LET ix == {i \in 1..Len(productionQueue) :
                  productionQueue[i].weekArrives = week + 1}
    IN  IF ix = {} THEN 4
        ELSE productionQueue[CHOOSE i \in ix : \A j \in ix : i <= j].amount

\* processSupplier, step 1: the amount of
\* productionQueue.find(p => p.weekArrives === week + 1), 0 when there is none
arrivingProduction(productionQueue, week) ==
    LET ix == {i \in 1..Len(productionQueue) :
                  productionQueue[i].weekArrives = week + 1}
    IN  IF ix = {} THEN 0
        ELSE productionQueue[CHOOSE i \in ix : \A j \in ix : i <= j].amount

\* a partial shipment that leaves the stock where it was
shipToPlayerKeepStock(inventory, totalOwed) ==
    IF inventory >= totalOwed
    THEN [shippedAmount |-> totalOwed, inventory |-> inventory - totalOwed,
          backlog |-> 0]
    ELSE [shippedAmount |-> inventory, inventory |-> inventory,
          backlog |-> totalOwed - inventory]

\* a partial shipment that is not taken off the backlog
shipToPlayerNoPartial(inventory, totalOwed) ==
    IF inventory >= totalOwed
    THEN [shippedAmount |-> totalOwed, inventory |-> inventory - totalOwed,
          backlog |-> 0]
    ELSE [shippedAmount |-> inventory, inventory |-> 0,
          backlog |-> totalOwed]

\* processSupplier, step 3: ship to the player what the stock allows
shipToPlayer(inventory, totalOwed) ==
    IF inventory >= totalOwed
    THEN [shippedAmount |-> totalOwed, inventory |-> inventory - totalOwed,
          backlog |-> 0]
    ELSE [shippedAmount |-> inventory, inventory |-> 0,
          backlog |-> totalOwed - inventory]

\* processSupplier of resolveWeek
processSupplier(state, key, productionAmount, playerOrderAmount, week) ==
    LET arriving == arrivingProduction(state.productionQueue, week)
        queue1 == Append(state.productionQueue,
                         [weekArrives |-> week + 1 + PRODUCTION_DELAY,
                          amount |-> productionAmount])
        s == shipToPlayer(state.inventory + arriving,
                          playerOrderAmount + state.backlog)
    IN  [newState |-> [state EXCEPT !.inventory = s.inventory,
                                    !.backlog = s.backlog,
                                    !.productionQueue = queue1,
                                    !.lastOrderReceived = playerOrderAmount],
         shippedAmount |-> s.shippedAmount,
         t |-> [echelon |-> key, week |-> week,
                priorInventory |-> state.inventory,
                arriving |-> arriving,
                incoming |-> playerOrderAmount,
                priorBacklog |-> state.backlog,
                shipped |-> s.shippedAmount,
                newInventory |-> s.inventory,
                newBacklog |-> s.backlog]]

\* ---- IEEE 754 double arithmetic of the service-level ratio ----
\* A binary numeral is a sequence of bits, least significant first. The
\* operands are integers below 2^15, so that every intermediate product
\* fits the 32-bit integers of the checker.

Pow2Table == <<1, 2, 4, 8, 16, 32, 64, 128, 256, 512, 1024, 2048, 4096, 8192,
               16384, 32768>>
Pow2(n) == Pow2Table[n + 1]

\* the bit of weight 2^(k-1) of a numeral, 0 beyond its length
BitAt(bits, k) == IF k \in 1..Len(bits) THEN bits[k] ELSE 0

\* the value of the bits first..last of a numeral (at most 16 bits)
BitsNat(bits, first, last) ==
    SumSeq([j \in 1..16 |-> IF first + j - 1 <= last
                             THEN BitAt(bits, first + j - 1) * Pow2(j - 1)
                             ELSE 0], 16)

\* bits + 1
IncBits(bits) ==
    IF \A k \in 1..Len(bits) : bits[k] = 1
    THEN [k \in 1..(Len(bits) + 1) |-> IF k = Len(bits) + 1 THEN 1 ELSE 0]
    ELSE LET j == CHOOSE k \in 1..Len(bits) :
                      bits[k] = 0 /\ \A m \in 1..(k - 1) : bits[m] = 1
         IN  [k \in 1..Len(bits) |->
                 IF k < j THEN 0 ELSE IF k = j THEN 1 ELSE bits[k]]

\* bits * x exactly, for a numeral of at most 60 bits and 0 < x < 2^15,
\* by limbs of 15 bits
MulBits(bits, x) ==
    LET B == Pow2(15)
        p0 == x * BitsNat(bits, 1, 15)
        p1 == x * BitsNat(bits, 16, 30) + p0 \div B
        p2 == x * BitsNat(bits, 31, 45) + p1 \div B
        p3 == x * BitsNat(bits, 46, 60) + p2 \div B
        limbs == <<p0 % B, p1 % B, p2 % B, p3 % B, p3 \div B>>
        all == [k \in 1..75 |->
                   (limbs[((k - 1) \div 15) + 1] \div Pow2((k - 1) % 15)) % 2]
        top == CHOOSE k \in 1..75 : all[k] = 1 /\ \A m \in (k + 1)..75 : all[m] = 0
    IN  SubSeq(all, 1, top)

\* round a numeral to 53 significant bits, to nearest, ties to even;
\* the value is bits * 2^drop
RoundTo53(n) ==
    IF Len(n) <= 53 THEN [bits |-> n, drop |-> 0]
    ELSE LET d == Len(n) - 53
             kept == SubSeq(n, d + 1, Len(n))
             sticky == \E k \in 1..(d - 1) : n[k] = 1
             up == n[d] = 1 /\ (sticky \/ kept[1] = 1)
         IN  [bits |-> IF up THEN IncBits(kept) ELSE kept, drop |-> d]

\* 2^i mod t for i < 90 and t <= 2^15
Pow2Mod(i, t) ==
    LET m1 == Pow2(15) % t
        m2 == (m1 * m1) % t
        m3 == (m2 * m1) % t
        m4 == (m2 * m2) % t
        m5 == (m4 * m1) % t
        a == i \div 15
        high == IF a = 0 THEN 1 % t ELSE IF a = 1 THEN m1 ELSE IF a = 2 THEN m2
                ELSE IF a = 3 THEN m3 ELSE IF a = 4 THEN m4 ELSE m5
    IN  (high * (Pow2(i % 15) % t)) % t

\* the remainder of the long division of r by t after i binary places
DivRem(r, t, i) == (r * Pow2Mod(i, t)) % t

\* the i-th bit after the binary point of r / t, for 0 < r < t
DivBit(r, t, i) == IF 2 * DivRem(r, t, i - 1) >= t THEN 1 ELSE 0

\* the double shipped / total for 0 < shipped < total: mant * 2^(-scale)
DoubleQuotient(shipped, total) ==
    LET z == CHOOSE n \in 0..15 :
                 /\ DivBit(shipped, total, n + 1) = 1
                 /\ \A k \in 1..n : DivBit(shipped, total, k) = 0
        mant == [k \in 1..53 |-> DivBit(shipped, total, z + 54 - k)]
        up == /\ DivBit(shipped, total, z + 54) = 1
              /\ (DivRem(shipped, total, z + 54) # 0 \/ mant[1] = 1)
    IN  [mant |-> IF up THEN IncBits(mant) ELSE mant, scale |-> z + 53]

\* Math.floor(order * q) for a double q = mant * 2^(-scale) and an integer
\* order # 0: the product is rounded to a double before the floor
FloorOfProduct(order, q) ==
    LET mag == IF order < 0 THEN 0 - order ELSE order
        p == RoundTo53(MulBits(q.mant, mag))
        sh == q.scale - p.drop
        whole == BitsNat(p.bits, sh + 1, Len(p.bits))
        frac == \E k \in 1..Min2(sh, Len(p.bits)) : p.bits[k] = 1
    IN  IF order > 0 THEN whole
        ELSE IF frac THEN 0 - whole - 1 ELSE 0 - whole

\* Math.floor(order * serviceLevel) with serviceLevel = shipped / total when
\* total > 0 and 1 otherwise, in double arithmetic; shipped is never above
\* total, and the quotients 0 and 1 are exact
FoodRatioShip(order, shipped, total) ==
    IF total > 0 /\ shipped # total
    THEN IF shipped = 0 \/ order = 0 THEN 0
         ELSE FloorOfProduct(order, DoubleQuotient(shipped, total))
    ELSE order

\* addMessage: newest first, at most ten kept
addMessage(msgs, type) == SubSeq(<<type>> \o msgs, 1, Min2(10, Len(msgs) + 1))

RECURSIVE addMessages(_, _)
addMessages(msgs, types) ==
    IF types = <<>> THEN msgs
    ELSE addMessages(addMessage(msgs, Head(types)), Tail(types))

\* a DC that forgets the demand it could not serve (lost sales)
FoodPlayerTransitionLostSales(item, inv, arriving, demand, backlog, week) ==
    LET newInv1 == inv + arriving
        totalNeeds == demand + backlog
        enough == newInv1 >= totalNeeds
    IN  [echelon |-> "dc", kind |-> item, week |-> week,
         priorInventory |-> inv,
         arriving |-> arriving,
         incoming |-> demand,
         priorBacklog |-> backlog,
         shipped |-> IF enough THEN totalNeeds ELSE newInv1,
         newInventory |-> IF enough THEN newInv1 - totalNeeds ELSE 0,
         newBacklog |-> 0]

\* a DC that serves the whole demand from a stock it does not have
FoodPlayerTransitionOversell(item, inv, arriving, demand, backlog, week) ==
    [echelon |-> "dc", kind |-> item, week |-> week,
     priorInventory |-> inv,
     arriving |-> arriving,
     incoming |-> demand,
     priorBacklog |-> backlog,
     shipped |-> demand + backlog,
     newInventory |-> inv + arriving - (demand + backlog),
     newBacklog |-> 0]

\* the DC's receive-and-consume step of resolveWeek for one ingredient
FoodPlayerTransition(item, inv, arriving, demand, backlog, week) ==
    LET newInv1 == inv + arriving
        totalNeeds == demand + backlog
        enough == newInv1 >= totalNeeds
    IN  [echelon |-> "dc", kind |-> item, week |-> week,
         priorInventory |-> inv,
         arriving |-> arriving,
         incoming |-> demand,
         priorBacklog |-> backlog,
         shipped |-> IF enough THEN totalNeeds ELSE newInv1,
         newInventory |-> IF enough THEN newInv1 - totalNeeds ELSE 0,
         newBacklog |-> IF enough THEN 0 ELSE totalNeeds - newInv1]

\* Step 4 of resolveWeek: the store orders of the next week
FoodNextStoreOrders(nextWeek, randomMultiplier) ==
    LET multiplier == IF nextWeek = 5 THEN 2500
                      ELSE IF nextWeek = 6 THEN 1800
                      ELSE randomMultiplier
        generateStoreDemand(baseBM, baseF) ==
            [bigMacs |-> (baseBM * multiplier) \div 1000,
             filets |-> (baseF * multiplier) \div 1000]
    IN  [storeA |-> generateStoreDemand(100, 20),
         storeB |-> generateStoreDemand(90, 30),
         storeC |-> generateStoreDemand(110, 10)]

FoodIdle == [pc |-> "idle",
             aryztaState |-> generateSupplierState("Aryzta (Buns)", 3000),
             tysonState |-> generateSupplierState("Tyson (Protein)", 3000),
             aryztaDecision |-> NoDecision, tysonDecision |-> NoDecision]

FoodInit ==
    /\ f_week = 1
    /\ f_gameOver = FALSE
    /\ f_turnPhase = "PLAYER"
    /\ f_inventory = generateInitialInventory
    /\ f_backlog = [buns |-> 0, beef |-> 0, fish |-> 0]
    /\ f_totalCost = 0
    /\ f_aryztaState = generateSupplierState("Aryzta (Buns)", 3000)
    /\ f_tysonState = generateSupplierState("Tyson (Protein)", 3000)
    /\ f_history = FoodInitialHistory
    /\ f_messages = <<"info">>
    /\ f_storeOrders = FoodInitialStoreOrders
    \* set by the mount effect
    /\ f_currentDemand = calculateIngredientDemand(FoodInitialStoreOrders)
    /\ f_shipments = <<>>
    /\ f_playerOrder = [buns |-> 0, beef |-> 0, fish |-> 0]
    /\ f_seq = FoodIdle

\* onChange of an OrderInput: parseInt(e.target.value) || 0
FoodSetPlayerOrder(item, text) ==
    /\ variant = "food"
    /\ FoodFrame
    /\ ~f_gameOver
    /\ f_turnPhase = "PLAYER"
    /\ f_playerOrder[item] # parseIntOr0(text)
    /\ CanDeviate(f_week)
    /\ devs' = devs + 1
    /\ f_playerOrder' = [f_playerOrder EXCEPT ![item] = parseIntOr0(text)]
    /\ UNCHANGED <<f_week, f_gameOver, f_turnPhase, f_inventory, f_backlog,
                   f_totalCost, f_aryztaState, f_tysonState, f_history,
                   f_messages, f_storeOrders, f_currentDemand, f_shipments,
                   f_seq, tx, ledger>>

\* a Place Orders button that is never disabled
startTurnSequenceAnyPhase ==
    /\ variant = "food"
    /\ FoodFrame
    /\ ~f_gameOver
    /\ IF f_week >= MAX_WEEKS
       THEN UNCHANGED <<f_turnPhase, f_seq>>
       ELSE /\ f_turnPhase' = "AI_ARYZTA"
            /\ f_seq' = [pc |-> "aryzta",
                         aryztaState |-> f_aryztaState,
                         tysonState |-> f_tysonState,
                         aryztaDecision |-> NoDecision,
                         tysonDecision |-> NoDecision]
    /\ UNCHANGED <<f_week, f_gameOver, f_inventory, f_backlog, f_totalCost,
                   f_aryztaState, f_tysonState, f_history, f_messages,
                   f_storeOrders, f_currentDemand, f_shipments, f_playerOrder,
                   devs, tx, ledger>>

\* startTurnSequence up to its first await; the closure keeps the supplier
\* states of the render in which the button was clicked
startTurnSequence ==
    /\ variant = "food"
    /\ FoodFrame
    /\ ~f_gameOver
    /\ f_turnPhase = "PLAYER"
    /\ IF f_week >= MAX_WEEKS
       THEN UNCHANGED <<f_turnPhase, f_seq>>
       ELSE /\ f_turnPhase' = "AI_ARYZTA"
            /\ f_seq' = [pc |-> "aryzta",
                         aryztaState |-> f_aryztaState,
                         tysonState |-> f_tysonState,
                         aryztaDecision |-> NoDecision,
                         tysonDecision |-> NoDecision]
    /\ UNCHANGED <<f_week, f_gameOver, f_inventory, f_backlog, f_totalCost,
                   f_aryztaState, f_tysonState, f_history, f_messages,
                   f_storeOrders, f_currentDemand, f_shipments, f_playerOrder,
                   devs, tx, ledger>>

FoodAnswerAllowed(answer) ==
    IF apiKey /\ answer # FoodDefaultAnswer
    THEN CanDeviate(f_week) /\ devs' = devs + 1
    ELSE answer = FoodDefaultAnswer /\ devs' = devs

\* a decision step that starts the production at once, before the week is
\* resolved
FoodAryztaDecisionEager(answer) ==
    /\ variant = "food"
    /\ FoodFrame
    /\ f_seq.pc = "aryzta"
    /\ FoodAnswerAllowed(answer)
    /\ LET bunsOrderFromPlayer == f_playerOrder["buns"]
           aryztaDecision == FoodGetAITurn(apiKey, answer, f_seq.aryztaState,
                                           bunsOrderFromPlayer)
       IN  /\ f_aryztaState' =
                 [f_aryztaState EXCEPT
                     !.lastReasoning = aryztaDecision.src,
                     !.lastProductionOrder = aryztaDecision.order,
                     !.productionQueue =
                         Append(@, [weekArrives |-> f_week + 1 + PRODUCTION_DELAY,
                                    amount |-> aryztaDecision.order]),
                     !.history = Append(@, [week |-> f_week,
                                            orderReceived |-> bunsOrderFromPlayer,
                                            inventory |-> f_aryztaState.inventory,
                                            production |-> aryztaDecision.order])]
           /\ f_seq' = [f_seq EXCEPT !.pc = "tyson",
                                     !.aryztaDecision = aryztaDecision]
    /\ f_turnPhase' = "AI_TYSON"
    /\ UNCHANGED <<f_week, f_gameOver, f_inventory, f_backlog, f_totalCost,
                   f_tysonState, f_history, f_messages, f_storeOrders,
                   f_currentDemand, f_shipments, f_playerOrder, tx, ledger>>

\* Aryzta's getAITurn settles
FoodAryztaDecision(answer) ==
    /\ variant = "food"
    /\ FoodFrame
    /\ f_seq.pc = "aryzta"
    /\ FoodAnswerAllowed(answer)
    /\ LET bunsOrderFromPlayer == f_playerOrder["buns"]
           aryztaDecision == FoodGetAITurn(apiKey, answer, f_seq.aryztaState,
                                           bunsOrderFromPlayer)
       IN  /\ f_aryztaState' =
                 [f_aryztaState EXCEPT
                     !.lastReasoning = aryztaDecision.src,
                     !.lastProductionOrder = aryztaDecision.order,
                     !.history = Append(@, [week |-> f_week,
                                            orderReceived |-> bunsOrderFromPlayer,
                                            inventory |-> f_aryztaState.inventory,
                                            production |-> aryztaDecision.order])]
           /\ f_seq' = [f_seq EXCEPT !.pc = "tyson",
                                     !.aryztaDecision = aryztaDecision]
    /\ f_turnPhase' = "AI_TYSON"
    /\ UNCHANGED <<f_week, f_gameOver, f_inventory, f_backlog, f_totalCost,
                   f_tysonState, f_history, f_messages, f_storeOrders,
                   f_currentDemand, f_shipments, f_playerOrder, tx, ledger>>

\* Tyson's getAITurn settles
FoodTysonDecision(answer) ==
    /\ variant = "food"
    /\ FoodFrame
    /\ f_seq.pc = "tyson"
    /\ FoodAnswerAllowed(answer)
    /\ LET totalMeatOrder == f_playerOrder["beef"] + f_playerOrder["fish"]
           tysonDecision == FoodGetAITurn(apiKey, answer, f_seq.tysonState,
                                          totalMeatOrder)
       IN  /\ f_tysonState' =
                 [f_tysonState EXCEPT
                     !.lastReasoning = tysonDecision.src,
                     !.lastProductionOrder = tysonDecision.order,
                     !.history = Append(@, [week |-> f_week,
                                            orderReceived |-> totalMeatOrder,
                                            inventory |-> f_tysonState.inventory,
                                            production |-> tysonDecision.order])]
           /\ f_seq' = [f_seq EXCEPT !.pc = "processing",
                                     !.tysonDecision = tysonDecision]
    /\ f_turnPhase' = "PROCESSING"
    /\ UNCHANGED <<f_week, f_gameOver, f_inventory, f_backlog, f_totalCost,
                   f_aryztaState, f_history, f_messages, f_storeOrders,
                   f_currentDemand, f_shipments, f_playerOrder, tx, ledger>>

\* resolveWeek, Step 2: the shipment object created for the DC
FoodNewShipment(week, playerOrder, tysonBacklog, aryztaResult, tysonResult) ==
    LET tysonDemandTotal == playerOrder["beef"] + playerOrder["fish"] + tysonBacklog
    IN  [arrivalWeek |-> week + 1 + LEAD_TIME,
         quantities |->
            [buns |-> aryztaResult.shippedAmount,
             beef |-> FoodRatioShip(playerOrder["beef"], tysonResult.shippedAmount,
                                    tysonDemandTotal),
             fish |-> FoodRatioShip(playerOrder["fish"], tysonResult.shippedAmount,
                                    tysonDemandTotal)]]

\* resolveWeek, Step 3: updatedShipments.find(s => s.arrivalWeek === week + 1)
FoodArrivingShipment(updatedShipments, week) ==
    LET ix == {i \in 1..Len(updatedShipments) :
                  updatedShipments[i].arrivalWeek = week + 1}
    IN  IF ix = {}
        THEN [arrived |-> FALSE, quantities |-> [buns |-> 0, beef |-> 0, fish |-> 0]]
        ELSE [arrived |-> TRUE,
              quantities |->
                 updatedShipments[CHOOSE i \in ix : \A j \in ix : i <= j].quantities]

\* resolveWeek, Step 3: receive and consume, for every ingredient
FoodPlayerPhase(week, inventory, backlog, currentDemand, arrivingQty) ==
    [item \in Items |->
        FoodPlayerTransition(item, inventory[item], arrivingQty[item],
                             currentDemand[item], backlog[item], week)]

\* resolveWeek: costs, messages, next demand and the state updates
FoodCommit(week, aryztaResult, tysonResult, newShipment, arriving, pt, randomMultiplier) ==
    LET totalItemsHeld == pt["buns"].newInventory + pt["beef"].newInventory
                          + pt["fish"].newInventory
        totalItemsBacklog == pt["buns"].newBacklog + pt["beef"].newBacklog
                             + pt["fish"].newBacklog
        weeklyCost == totalItemsHeld * FOOD_HOLDING_COST
                      + totalItemsBacklog * FOOD_BACKLOG_COST
        newTotalCost == f_totalCost + weeklyCost
        nextWeek == week + 1
        msgs ==
            (IF aryztaResult.shippedAmount < f_playerOrder["buns"]
             THEN <<"warning">> ELSE <<>>)
            \o (IF newShipment.quantities["beef"] < f_playerOrder["beef"]
                   \/ newShipment.quantities["fish"] < f_playerOrder["fish"]
                THEN <<"warning">> ELSE <<>>)
            \o (IF arriving.arrived THEN <<"success">> ELSE <<>>)
            \o (IF totalItemsBacklog > 0 THEN <<"error">> ELSE <<>>)
            \o (IF nextWeek = 5 THEN <<"warning">> ELSE <<>>)
    IN  /\ f_aryztaState' = aryztaResult.newState
        /\ f_tysonState' = tysonResult.newState
        /\ f_shipments' = Append(f_shipments, newShipment)
        /\ f_messages' = addMessages(f_messages, msgs)
        /\ f_inventory' = [item \in Items |-> pt[item].newInventory]
        /\ f_backlog' = [item \in Items |-> pt[item].newBacklog]
        /\ f_totalCost' = newTotalCost
        /\ f_storeOrders' = FoodNextStoreOrders(nextWeek, randomMultiplier)
        /\ f_currentDemand' =
              calculateIngredientDemand(FoodNextStoreOrders(nextWeek, randomMultiplier))
        /\ f_week' = nextWeek
        /\ f_playerOrder' = generateEmptyOrder
        /\ f_history' = Append(f_history,
                               [week |-> nextWeek, inventory |-> totalItemsHeld,
                                backlog |-> totalItemsBacklog,
                                cost |-> newTotalCost])
        /\ f_gameOver' = IF nextWeek = MAX_WEEKS THEN TRUE ELSE f_gameOver
        /\ tx' = {aryztaResult.t, tysonResult.t} \cup {pt[item] : item \in Items}
        /\ ledger' = Append(ledger,
              [week |-> week,
               echelons |-> {aryztaResult.t, tysonResult.t}
                               \cup {pt[item] : item \in Items},
               scheduled |-> [aryzta |-> f_seq.aryztaDecision.order,
                              tyson |-> f_seq.tysonDecision.order,
                              dc_buns |-> newShipment.quantities["buns"],
                              dc_beef |-> newShipment.quantities["beef"],
                              dc_fish |-> newShipment.quantities["fish"]],
               released |-> [aryzta |-> aryztaResult.t.arriving,
                             tyson |-> tysonResult.t.arriving,
                             dc_buns |-> pt["buns"].arriving,
                             dc_beef |-> pt["beef"].arriving,
                             dc_fish |-> pt["fish"].arriving]])

FoodResolve3(week, aryztaResult, tysonResult, newShipment, arriving, randomMultiplier) ==
    FoodCommit(week, aryztaResult, tysonResult, newShipment, arriving,
               FoodPlayerPhase(week, f_inventory, f_backlog, f_currentDemand,
                               arriving.quantities),
               randomMultiplier)

FoodResolve2(week, aryztaResult, tysonResult, newShipment, randomMultiplier) ==
    FoodResolve3(week, aryztaResult, tysonResult, newShipment,
                 FoodArrivingShipment(Append(f_shipments, newShipment), week),
                 randomMultiplier)

FoodResolve1(week, aryztaResult, tysonResult, randomMultiplier) ==
    FoodResolve2(week, aryztaResult, tysonResult,
                 FoodNewShipment(week, f_playerOrder, f_seq.tysonState.backlog,
                                 aryztaResult, tysonResult),
                 randomMultiplier)

\* resolveWeek(aryztaDecision.order, tysonDecision.order), in the closure of
\* startTurnSequence (the supplier states are those of the click)
resolveWeek(randomMultiplier) ==
    /\ variant = "food"
    /\ FoodFrame
    /\ f_seq.pc = "processing"
    /\ IF randomMultiplier = FoodDefaultMultiplier \/ f_week + 1 \in {5, 6}
       THEN randomMultiplier = FoodDefaultMultiplier /\ devs' = devs
       ELSE CanDeviate(f_week) /\ devs' = devs + 1
    /\ FoodResolve1(f_week,
                    processSupplier(f_seq.aryztaState, "aryzta",
                                    f_seq.aryztaDecision.order,
                                    f_playerOrder["buns"], f_week),
                    processSupplier(f_seq.tysonState, "tyson",
                                    f_seq.tysonDecision.order,
                                    f_playerOrder["beef"] + f_playerOrder["fish"],
                                    f_week),
                    randomMultiplier)
    /\ f_turnPhase' = "PLAYER"
    /\ f_seq' = [f_seq EXCEPT !.pc = "idle"]

\* window.location.reload(): the component is constructed again
FoodReload ==
    /\ variant = "food"
    /\ FoodFrame
    /\ f_gameOver
    /\ f_seq.pc = "idle"
    /\ f_week' = 1
    /\ f_gameOver' = FALSE
    /\ f_turnPhase' = "PLAYER"
    /\ f_inventory' = generateInitialInventory
    /\ f_backlog' = [buns |-> 0, beef |-> 0, fish |-> 0]
    /\ f_totalCost' = 0
    /\ f_aryztaState' = generateSupplierState("Aryzta (Buns)", 3000)
    /\ f_tysonState' = generateSupplierState("Tyson (Protein)", 3000)
    /\ f_history' = FoodInitialHistory
    /\ f_messages' = <<"info">>
    /\ f_storeOrders' = FoodInitialStoreOrders
    /\ f_currentDemand' = calculateIngredientDemand(FoodInitialStoreOrders)
    /\ f_shipments' = <<>>
    /\ f_playerOrder' = [buns |-> 0, beef |-> 0, fish |-> 0]
    /\ f_seq' = FoodIdle
    /\ ledger' = <<>>
    /\ UNCHANGED <<devs, tx>>

FoodNext ==
    \/ \E item \in Items, text \in FoodOtherInputs : FoodSetPlayerOrder(item, text)
    \/ startTurnSequence
    \/ \E a \in {FoodDefaultAnswer} \cup FoodOtherAnswers : FoodAryztaDecision(a)
    \/ \E a \in {FoodDefaultAnswer} \cup FoodOtherAnswers : FoodTysonDecision(a)
    \/ \E m \in {FoodDefaultMultiplier} \cup FoodOtherMultipliers : resolveWeek(m)
    \/ FoodReload

-----------------------------------------------------------------------------
(* ------------------- Nvidia, second game (part_001) -------------------- *)

V2_HOLDING_COST == 5
V2_BACKLOG_COST == 20
ORDER_CAP_PER_COMPONENT == 500
V2_INITIAL_INVENTORY == 100
V2_SUPPLIER_INVENTORY == 200

DEMAND_CURVE ==
    << 50, 50, 60, 80, 100, 120, 150, 200, 250, 300,
       300, 320, 310, 300, 280, 260, 250, 250, 250, 250 >>

\* DEMAND_CURVE[week - 1] || 0
V2CurrentDemand(week) ==
    IF week >= 1 /\ week <= Len(DEMAND_CURVE) THEN DEMAND_CURVE[week] ELSE 0

\* the texts the player can type into an order box
V2OtherInputs == {<<"3", "0", "0">>, <<"6", "0", "0">>, <<"-", "5">>}

\* the answers of the remote model (only asked when a key is configured)
V2DefaultAnswer == [kind |-> "json", hasOrder |-> TRUE, order |-> 100]
V2OtherAnswers ==
    { [kind |-> "json", hasOrder |-> TRUE, order |-> -50],
      [kind |-> "json", hasOrder |-> TRUE, order |-> 900],
      [kind |-> "error", hasOrder |-> FALSE, order |-> 0] }

RECURSIVE SumAmounts(_, _)
\* incomingProduction.reduce((a, b) => a + b.amount, 0)
SumAmounts(q, n) == IF n = 0 THEN 0 ELSE SumAmounts(q, n - 1) + q[n].amount

RECURSIVE FilterSeq(_, _, _)
\* q.filter(p => (p.arrivalWeek === week) === keepArriving), in order
FilterSeq(q, week, keepArriving) ==
    IF q = <<>> THEN <<>>
    ELSE (IF (Head(q).arrivalWeek = week) = keepArriving THEN <<Head(q)>> ELSE <<>>)
         \o FilterSeq(Tail(q), week, keepArriving)

\* getAITurn (nv2)
V2GetAITurn(hasKey, answer, currentStats, incomingDemand) ==
    IF ~hasKey
    THEN [src |-> "nokey", hasOrder |-> TRUE,
          order |-> Max2(0, incomingDemand - currentStats.inventory
                            + currentStats.backlog)]
    ELSE IF answer.kind = "error"
    THEN LET target == 200
             pipeline == SumAmounts(currentStats.incomingProduction,
                                    Len(currentStats.incomingProduction))
             needed == Max2(0, (target + currentStats.backlog + incomingDemand)
                               - (currentStats.inventory + pipeline))
         IN  [src |-> "fallback", hasOrder |-> TRUE,
              order |-> Min2(needed, ORDER_CAP_PER_COMPONENT)]
    ELSE [src |-> "ai", hasOrder |-> answer.hasOrder, order |-> answer.order]

\* processSupplier of resolveWeek (nv2)
V2processSupplier(type, userOrder, aiDecision, currentSupplierState, week) ==
    LET supplierArriving == FilterSeq(currentSupplierState.incomingProduction, week, TRUE)
        supplierPending == FilterSeq(currentSupplierState.incomingProduction, week, FALSE)
        arrivedAmount == SumAmounts(supplierArriving, Len(supplierArriving))
        inventory1 == currentSupplierState.inventory + arrivedAmount
        totalOwed == userOrder + currentSupplierState.backlog
        canShip == Min2(totalOwed, inventory1)
        inventory2 == inventory1 - canShip
        newBacklog == totalOwed - canShip
    IN  [state |-> [inventory |-> inventory2, backlog |-> newBacklog,
                    incomingProduction |->
                        IF aiDecision.order > 0
                        THEN Append(supplierPending,
                                    [amount |-> aiDecision.order,
                                     arrivalWeek |-> week + LEAD_TIME])
                        ELSE supplierPending],
         \* the amount pushed to incomingProduction (nothing unless order > 0)
         produced |-> IF aiDecision.order > 0 THEN aiDecision.order ELSE 0,
         shipped |-> canShip,
         shipments |-> IF canShip > 0
                       THEN << [type |-> type, amount |-> canShip,
                                arrivalWeek |-> week + LEAD_TIME] >>
                       ELSE <<>>,
         t |-> [echelon |-> type, week |-> week,
                priorInventory |-> currentSupplierState.inventory,
                arriving |-> arrivedAmount,
                incoming |-> userOrder,
                priorBacklog |-> currentSupplierState.backlog,
                shipped |-> canShip,
                newInventory |-> inventory2,
                newBacklog |-> newBacklog]]

\* sections 1 and 2 of resolveWeek (nv2): receive and assemble
V2PlayerTransition(inventory, backlog, userShipments, week) ==
    LET arrived == [c \in Components |->
                      SumArrivingOf(userShipments, c, week, Len(userShipments))]
        userInv == [c \in Components |-> inventory[c] + arrived[c]]
        maxProduction == Min2(userInv["cowos"], userInv["hbm"])
        currentDemand == V2CurrentDemand(week)
        totalDemandNeeded == currentDemand + backlog
        fulfilled == Min2(totalDemandNeeded, maxProduction)
    IN  [c \in Components |->
            [echelon |-> "player", kind |-> c, week |-> week,
             priorInventory |-> inventory[c],
             arriving |-> arrived[c],
             incoming |-> currentDemand,
             priorBacklog |-> backlog,
             shipped |-> fulfilled,
             newInventory |-> userInv[c] - fulfilled,
             newBacklog |-> totalDemandNeeded - fulfilled]]

V2InitSuppliers ==
    [c \in Components |->
        [inventory |-> V2_SUPPLIER_INVENTORY, backlog |-> 0,
         incomingProduction |-> <<>>]]

V2NoRun == [pc |-> "idle", decision |-> [c \in Components |-> NoDecision]]

Nv2Init ==
    /\ v_week = 0
    /\ v_gameState = "start"
    /\ v_turnPhase = "player_turn"
    /\ v_inventory = [c \in Components |-> V2_INITIAL_INVENTORY]
    /\ v_blackwellBacklog = 0
    /\ v_userShipments = <<>>
    /\ v_suppliers = V2InitSuppliers
    /\ v_score = [current |-> 0, total |-> 0]
    /\ v_history = <<>>
    /\ v_orders = [c \in Components |-> 0]
    /\ v_aiThinking = FALSE
    /\ v_aiReasoning = [c \in Components |-> "null"]
    /\ v_run = V2NoRun

\* a startGame that leaves the week counter as it is
startGameKeepWeek ==
    /\ variant = "nv2"
    /\ Nv2Frame
    /\ v_gameState \in {"start", "gameover"}
    /\ v_week' = v_week
    /\ v_gameState' = "playing"
    /\ v_turnPhase' = "player_turn"
    /\ v_inventory' = [c \in Components |-> V2_INITIAL_INVENTORY]
    /\ v_suppliers' = V2InitSuppliers
    /\ v_blackwellBacklog' = 0
    /\ v_userShipments' = <<>>
    /\ v_score' = [current |-> 0, total |-> 0]
    /\ v_history' = <<>>
    /\ v_orders' = [c \in Components |-> 0]
    /\ v_aiReasoning' = [c \in Components |-> "null"]
    /\ ledger' = <<>>
    /\ UNCHANGED <<v_aiThinking, v_run, devs, tx>>

startGame ==
    /\ variant = "nv2"
    /\ Nv2Frame
    /\ v_gameState \in {"start", "gameover"}
    /\ v_week' = 1
    /\ v_gameState' = "playing"
    /\ v_turnPhase' = "player_turn"
    /\ v_inventory' = [c \in Components |-> V2_INITIAL_INVENTORY]
    /\ v_suppliers' = V2InitSuppliers
    /\ v_blackwellBacklog' = 0
    /\ v_userShipments' = <<>>
    /\ v_score' = [current |-> 0, total |-> 0]
    /\ v_history' = <<>>
    /\ v_orders' = [c \in Components |-> 0]
    /\ v_aiReasoning' = [c \in Components |-> "null"]
    /\ ledger' = <<>>
    /\ UNCHANGED <<v_aiThinking, v_run, devs, tx>>

\* onChange of an order box: parseInt(e.target.value) || 0
V2SetOrder(c, text) ==
    /\ variant = "nv2"
    /\ Nv2Frame
    /\ v_gameState = "playing"
    /\ v_turnPhase = "player_turn"
    /\ v_orders[c] # parseIntOr0(text)
    /\ CanDeviate(v_week)
    /\ devs' = devs + 1
    /\ v_orders' = [v_orders EXCEPT ![c] = parseIntOr0(text)]
    /\ UNCHANGED <<v_week, v_gameState, v_turnPhase, v_inventory,
                   v_blackwellBacklog, v_userShipments, v_suppliers, v_score,
                   v_history, v_aiThinking, v_aiReasoning, v_run, tx, ledger>>

canSubmit ==
    v_orders["cowos"] >= 0 /\ v_orders["hbm"] >= 0 /\ v_turnPhase = "player_turn"

\* handlePlayerSubmit (nv2); the button is disabled unless canSubmit
V2handlePlayerSubmit ==
    /\ variant = "nv2"
    /\ Nv2Frame
    /\ canSubmit
    /\ IF v_gameState # "playing" \/ v_turnPhase # "player_turn"
       THEN v_turnPhase' = v_turnPhase
       ELSE v_turnPhase' = "ai_turn"
    /\ UNCHANGED <<v_week, v_gameState, v_inventory, v_blackwellBacklog,
                   v_userShipments, v_suppliers, v_score, v_history, v_orders,
                   v_aiThinking, v_aiReasoning, v_run, devs, tx, ledger>>

\* the effect on turnPhase: runAITurn up to its Promise.all
runAITurn ==
    /\ variant = "nv2"
    /\ Nv2Frame
    /\ v_turnPhase = "ai_turn"
    /\ v_run.pc = "idle"
    /\ v_aiThinking' = TRUE
    /\ v_run' = [pc |-> "calls", decision |-> [c \in Components |-> NoDecision]]
    /\ UNCHANGED <<v_week, v_gameState, v_turnPhase, v_inventory,
                   v_blackwellBacklog, v_userShipments, v_suppliers, v_score,
                   v_history, v_orders, v_aiReasoning, devs, tx, ledger>>

\* one of the two getAITurn promises settles
V2AIAnswer(c, answer) ==
    /\ variant = "nv2"
    /\ Nv2Frame
    /\ v_run.pc = "calls"
    /\ v_run.decision[c].src = "none"
    /\ IF apiKey /\ answer # V2DefaultAnswer
       THEN CanDeviate(v_week) /\ devs' = devs + 1
       ELSE answer = V2DefaultAnswer /\ devs' = devs
    /\ v_run' = [v_run EXCEPT !.decision[c] =
                    V2GetAITurn(apiKey, answer, v_suppliers[c], v_orders[c])]
    /\ UNCHANGED <<v_week, v_gameState, v_turnPhase, v_inventory,
                   v_blackwellBacklog, v_userShipments, v_suppliers, v_score,
                   v_history, v_orders, v_aiThinking, v_aiReasoning, tx, ledger>>

\* Promise.all of runAITurn: both decisions are there
V2AllSettled(decision) == \A c \in Components : decision[c].src # "none"

\* resolveWeek (nv2), sections 4 and 5: costs, history and state updates
V2Commit(week, pt, cowosUpdate, hbmUpdate, cowosDecision, hbmDecision) ==
    LET userCoWoS == pt["cowos"].newInventory
        userHBM == pt["hbm"].newInventory
        newBacklog == pt["cowos"].newBacklog
        weeklyCost == (userCoWoS + userHBM) * V2_HOLDING_COST
                      + newBacklog * V2_BACKLOG_COST
        newTotalScore == v_score.total + weeklyCost
    IN  /\ v_inventory' = [cowos |-> userCoWoS, hbm |-> userHBM]
        /\ v_blackwellBacklog' = newBacklog
        /\ v_userShipments' = v_userShipments \o cowosUpdate.shipments
                                              \o hbmUpdate.shipments
        /\ v_suppliers' = [cowos |-> cowosUpdate.state, hbm |-> hbmUpdate.state]
        /\ v_score' = [current |-> weeklyCost, total |-> newTotalScore]
        /\ v_aiReasoning' = [cowos |-> cowosDecision.src, hbm |-> hbmDecision.src]
        /\ v_history' = Append(v_history,
              [week |-> week, demand |-> V2CurrentDemand(week),
               fulfilled |-> pt["cowos"].shipped, backlog |-> newBacklog,
               inventoryCoWoS |-> userCoWoS, inventoryHBM |-> userHBM,
               ordersCoWoS |-> v_orders["cowos"], ordersHBM |-> v_orders["hbm"],
               supplierCoWoSInv |-> cowosUpdate.state.inventory,
               cost |-> weeklyCost])
        /\ v_orders' = [c \in Components |-> 0]
        /\ v_aiThinking' = FALSE
        /\ tx' = {cowosUpdate.t, hbmUpdate.t} \cup {pt[c] : c \in Components}
        /\ ledger' = Append(ledger,
              [week |-> week,
               echelons |-> {cowosUpdate.t, hbmUpdate.t} \cup {pt[c] : c \in Components},
               scheduled |->
                  [supplier_cowos |-> cowosUpdate.produced,
                   supplier_hbm |-> hbmUpdate.produced,
                   player_cowos |-> SumAmounts(cowosUpdate.shipments,
                                               Len(cowosUpdate.shipments)),
                   player_hbm |-> SumAmounts(hbmUpdate.shipments,
                                             Len(hbmUpdate.shipments))],
               released |-> [supplier_cowos |-> cowosUpdate.t.arriving,
                             supplier_hbm |-> hbmUpdate.t.arriving,
                             player_cowos |-> pt["cowos"].arriving,
                             player_hbm |-> pt["hbm"].arriving]])
        /\ IF week = MAX_WEEKS
           THEN /\ v_gameState' = "gameover"
                /\ v_turnPhase' = "gameover"
                /\ v_week' = v_week
           ELSE /\ v_week' = v_week + 1
                /\ v_turnPhase' = "player_turn"
                /\ v_gameState' = v_gameState

\* resolveWeek(cowosDecision, hbmDecision) (nv2), called when the Promise.all
\* of runAITurn resolves
V2resolveWeek ==
    /\ variant = "nv2"
    /\ Nv2Frame
    /\ v_run.pc = "calls"
    /\ V2AllSettled(v_run.decision)
    /\ IF v_week > MAX_WEEKS
       THEN UNCHANGED <<v_week, v_gameState, v_turnPhase, v_inventory,
                        v_blackwellBacklog, v_userShipments, v_suppliers,
                        v_score, v_history, v_orders, v_aiThinking,
                        v_aiReasoning, tx, ledger>>
       ELSE V2Commit(v_week,
                     V2PlayerTransition(v_inventory, v_blackwellBacklog,
                                        v_userShipments, v_week),
                     V2processSupplier("cowos", v_orders["cowos"],
                                       v_run.decision["cowos"],
                                       v_suppliers["cowos"], v_week),
                     V2processSupplier("hbm", v_orders["hbm"],
                                       v_run.decision["hbm"],
                                       v_suppliers["hbm"], v_week),
                     v_run.decision["cowos"], v_run.decision["hbm"])
    /\ v_run' = V2NoRun
    /\ devs' = devs

Nv2Next ==
    \/ startGame
    \/ \E c \in Components, text \in V2OtherInputs : V2SetOrder(c, text)
    \/ V2handlePlayerSubmit
    \/ runAITurn
    \/ \E c \in Components, a \in {V2DefaultAnswer} \cup V2OtherAnswers : V2AIAnswer(c, a)
    \/ V2resolveWeek


\* ---- the figures of the Game Over screens ----

\* Math.round(num / den) for num >= 0 and den > 0: halves are rounded up
MathRound(num, den) == (2 * num + den) \div (2 * den)

RECURSIVE SumBacklog(_, _)
\* history.reduce((acc, curr) => acc + curr.backlog, 0), over the first n entries
SumBacklog(h, n) == IF n = 0 THEN 0 ELSE SumBacklog(h, n - 1) + h[n].backlog

\* Avg Backlog of the fast-food Game Over modal
FoodAvgBacklog == MathRound(SumBacklog(f_history, Len(f_history)), Len(f_history))

\* Avg Backlog of the Game Over screen of the first Nvidia game
NvAvgBacklog == MathRound(SumBacklog(n_history, Len(n_history)), MAX_WEEKS)

\* Avg Backlog of the Game Over screen of the second Nvidia game
V2AvgBacklog == MathRound(SumBacklog(v_history, Len(v_history)), MAX_WEEKS)
-----------------------------------------------------------------------------
vars == <<variant, apiKey, devs, tx, ledger, beerVars, nvidiaVars, foodVars, nv2Vars>>

Init ==
    /\ variant \in {"beer", "nvidia", "food", "nv2"}
    /\ apiKey \in (IF variant = "beer" THEN {TRUE} ELSE BOOLEAN)
    /\ devs = 0
    /\ tx = {}
    /\ ledger = <<>>
    /\ BeerInit
    /\ NvidiaInit
    /\ FoodInit
    /\ Nv2Init

Next ==
    \/ BeerNext
    \/ NvidiaNext
    \/ FoodNext
    \/ Nv2Next

Spec == Init /\ [][Next]_vars

-----------------------------------------------------------------------------
(* -------------------------- Properties --------------------------------- *)

\* C1 (conservation): in every echelon transition of every game, the new
\* inventory plus what was shipped equals the prior inventory plus the
\* arriving supply, and the new backlog plus what was shipped equals the
\* incoming order plus the prior backlog.
C1_Conservation ==
    \A t \in tx :
        /\ t.newInventory + t.shipped = t.priorInventory + t.arriving
        /\ t.newBacklog + t.shipped = t.incoming + t.priorBacklog

\* a settlement in which an echelon with a backlog received supply and could
\* still not ship everything it owed
C1_Witness ==
    \E t \in tx :
        /\ t.arriving > 0
        /\ t.priorBacklog > 0
        /\ t.shipped > 0
        /\ t.newBacklog > 0

\* C2 (non-negativity): after every settled period, in every game, every
\* echelon's inventory (per resource kind) and backlog are >= 0, whatever
\* integer orders (negative ones included) the engine was given.
C2_NonNegative ==
    /\ \A i \in 1..Len(b_history) :
          b_history[i].inventory >= 0 /\ b_history[i].backlog >= 0
    /\ \A c \in Components :
          /\ n_player.inventory[c] >= 0
          /\ n_suppliers[c].inventory >= 0
          /\ n_suppliers[c].backlog >= 0
          /\ v_inventory[c] >= 0
          /\ v_suppliers[c].inventory >= 0
          /\ v_suppliers[c].backlog >= 0
    /\ n_player.backlog >= 0
    /\ v_blackwellBacklog >= 0
    /\ \A item \in Items : f_inventory[item] >= 0 /\ f_backlog[item] >= 0
    /\ f_aryztaState.inventory >= 0 /\ f_aryztaState.backlog >= 0
    /\ f_tysonState.inventory >= 0 /\ f_tysonState.backlog >= 0

\* a settlement in which an echelon was given a negative order and its
\* stock grew by it
C2_Witness ==
    \E t \in tx :
        /\ t.incoming < 0
        /\ t.shipped < 0
        /\ t.newInventory > t.priorInventory + t.arriving

\* the queues of a ledger entry
LedgerQueues(entry) == DOMAIN entry.released

\* C3 (pipeline timing): what a pipeline queue releases to its receiver in
\* the k-th settled week of a run is exactly what was scheduled into it in
\* week k - 2 (nothing in the first two weeks), and the weeks of a run are
\* settled one after the other, each once: an entry created in week w is
\* added in week w + 2, in no other week, and once.
C3_PipelineTiming ==
    \A k \in 1..Len(ledger) :
        /\ ledger[k].week = ledger[1].week + (k - 1)
        /\ \A q \in LedgerQueues(ledger[k]) :
              ledger[k].released[q] =
                 IF k > LEAD_TIME THEN ledger[k - LEAD_TIME].scheduled[q] ELSE 0

\* a supplier's production order and a shipment to the player, both made two
\* weeks before, arrive in the same settlement
C3_Witness ==
    /\ variant \in {"nvidia", "nv2"}
    /\ Len(ledger) > LEAD_TIME
    /\ \E c \in Components :
          /\ ledger[Len(ledger)].released["supplier_" \o c] > 0
          /\ ledger[Len(ledger)].released["player_" \o c] > 0
    /\ \E q \in LedgerQueues(ledger[Len(ledger)]) :
          ledger[Len(ledger) - 1].scheduled[q] # ledger[Len(ledger) - LEAD_TIME].scheduled[q]

RECURSIVE SumScheduled(_, _, _)
\* what was scheduled into queue q in the first n settled weeks
SumScheduled(l, q, n) ==
    IF n <= 0 THEN 0 ELSE SumScheduled(l, q, n - 1) + l[n].scheduled[q]

RECURSIVE SumReleased(_, _, _)
\* what queue q released in the first n settled weeks
SumReleased(l, q, n) ==
    IF n <= 0 THEN 0 ELSE SumReleased(l, q, n - 1) + l[n].released[q]

\* the run is over: the game-over state of the mounted game
RunOver ==
    \/ variant = "nvidia" /\ n_gameState = "END"
    \/ variant = "nv2" /\ v_gameState = "gameover"
    \/ variant = "food" /\ f_gameOver

\* C4 as stated: at the end of a run every pipeline queue has released as
\* much as was scheduled into it.
C4_AllReleasedAtEnd ==
    (RunOver /\ ledger # <<>>) =>
        \A q \in LedgerQueues(ledger[1]) :
            SumReleased(ledger, q, Len(ledger)) = SumScheduled(ledger, q, Len(ledger))

\* C4 (pipeline exactness, amended): at every point of a run, every pipeline
\* queue has released exactly what was scheduled into it up to two weeks
\* before; what was scheduled in the last two settled weeks is still in
\* transit (and stays there when the run ends).
C4_ReleasedUpToLeadTime ==
    ledger # <<>> =>
        \A q \in LedgerQueues(ledger[1]) :
            SumReleased(ledger, q, Len(ledger))
               = SumScheduled(ledger, q, Len(ledger) - LEAD_TIME)

\* the end of a run with a quantity scheduled in the last two weeks
C4_Witness ==
    /\ RunOver
    /\ ledger # <<>>
    /\ \E q \in LedgerQueues(ledger[1]) :
          /\ SumReleased(ledger, q, Len(ledger)) > 0
          /\ ledger[Len(ledger)].scheduled[q] > 0

\* the decisions obtained from getAITurn and not yet applied
Decisions ==
    ({b_ai.decision, f_seq.aryztaDecision, f_seq.tysonDecision}
        \cup {n_call.decision[c] : c \in Components}
        \cup {v_run.decision[c] : c \in Components})
    \ {NoDecision}

\* C5 (fallback totality): whatever the service answers (an error, a body
\* that is no JSON, a JSON object without an order), the decision getAITurn
\* yields carries an order, and the AI turn does not end in an exception
\* that leaves the game in its thinking phase.
C5_FallbackTotality ==
    /\ \A d \in Decisions : d.hasOrder
    /\ b_ai.phase # "thrown"

\* a remote call is outstanding
AwaitingAnswer ==
    /\ apiKey
    /\ \/ b_ai.phase = "pending"
       \/ n_call.active /\ ~NvAllSettled(n_call.decision)
       \/ f_seq.pc \in {"aryzta", "tyson"}
       \/ v_run.pc = "calls" /\ ~V2AllSettled(v_run.decision)

\* the steps of the games that are not an answer of the service
EngineNext ==
    \/ handleStartSetup
    \/ \E r \in {ROLES[i] : i \in 1..4}, t \in {"HUMAN", "AI"} : setPlayerTypes(r, t)
    \/ handleStartGame
    \/ BeerHandoffClick
    \/ BeerAutoStart
    \/ \E s \in {BeerDefaultInput} \cup BeerOtherInputs : BeerTypeOrder(s)
    \/ submitTurn
    \/ BeerAIRequest
    \/ BeerAIShow
    \/ BeerAISubmit
    \/ startNextWeek
    \/ NvStartClick
    \/ \E c \in Components, v \in NvOtherInputs : handleInputChange(c, v)
    \/ handlePlayerSubmit
    \/ finalizeTurn
    \/ restartGame
    \/ \E item \in Items, text \in FoodOtherInputs : FoodSetPlayerOrder(item, text)
    \/ startTurnSequence
    \/ \E m \in {FoodDefaultMultiplier} \cup FoodOtherMultipliers : resolveWeek(m)
    \/ FoodReload
    \/ startGame
    \/ \E c \in Components, text \in V2OtherInputs : V2SetOrder(c, text)
    \/ V2handlePlayerSubmit
    \/ runAITurn
    \/ V2resolveWeek

\* C6 (no indefinite stall): while a remote call is outstanding the game has
\* a step of its own (a timeout that leads to the fallback decision), so
\* that the period can be settled without the answer.
C6_TimeoutWhileWaiting == AwaitingAnswer => ENABLED EngineNext

\* C7 (order cap): in the games with a cap, the player orders and the
\* supplier decisions that handlePlayerSubmit / runAITurn hand to
\* finalizeTurn / resolveWeek are integers in [0, cap].
C7_OrderCap ==
    /\ n_call.active =>
          \A c \in Components :
              /\ n_call.order[c] \in 0..COMPONENT_CAPACITY_PER_WEEK
              /\ n_call.decision[c].src # "none" =>
                    /\ n_call.decision[c].hasOrder
                    /\ n_call.decision[c].order \in 0..COMPONENT_CAPACITY_PER_WEEK
    /\ v_run.pc = "calls" =>
          \A c \in Components :
              /\ v_orders[c] \in 0..ORDER_CAP_PER_COMPONENT
              /\ v_run.decision[c].src # "none" =>
                    /\ v_run.decision[c].hasOrder
                    /\ v_run.decision[c].order \in 0..ORDER_CAP_PER_COMPONENT

\* C8 (negative AI order clamped): every orderPlaced committed to the Beer
\* Game history and every amount scheduled into a supplier production queue
\* is >= 0.
C8_PlacedOrdersNonNegative ==
    /\ \A i \in 1..Len(b_history) : b_history[i].orderPlaced >= 0
    /\ \A c \in Components :
          /\ \A i \in 1..Len(n_suppliers[c].pipeline) :
                n_suppliers[c].pipeline[i].amount >= 0
          /\ \A i \in 1..Len(v_suppliers[c].incomingProduction) :
                v_suppliers[c].incomingProduction[i].amount >= 0
    /\ \A i \in 1..Len(f_aryztaState.productionQueue) :
          f_aryztaState.productionQueue[i].amount >= 0
    /\ \A i \in 1..Len(f_tysonState.productionQueue) :
          f_tysonState.productionQueue[i].amount >= 0

\* C9 (human order validated): the player orders that processTurn,
\* resolveWeek (fast food) and finalizeTurn are run with are >= 0: those
\* committed by a human role of the Beer Game, those of a fast-food turn
\* sequence under way, and those handed over by handlePlayerSubmit.
C9_HumanOrderValidated ==
    /\ b_gameState # "SETUP" =>
          \A i \in 1..Len(b_history) :
              b_playerTypes[b_history[i].roleId] = "HUMAN" =>
                  b_history[i].orderPlaced >= 0
    /\ f_seq.pc # "idle" => \A item \in Items : f_playerOrder[item] >= 0
    /\ n_call.active => \A c \in Components : n_call.order[c] >= 0

\* C10 (synchronization barrier): a step that settles a week (it appends the
\* week to the history of the game) is only taken when the decisions of
\* both AI suppliers for that week have been obtained.
C10_Barrier ==
    [][ /\ Len(n_history') > Len(n_history) =>
              \A c \in Components : n_call.decision[c].src # "none"
        /\ Len(v_history') > Len(v_history) =>
              \A c \in Components : v_run.decision[c].src # "none"
        /\ Len(f_history') > Len(f_history) =>
              /\ f_seq.aryztaDecision.src # "none"
              /\ f_seq.tysonDecision.src # "none" ]_vars

\* a week settled with the two suppliers' decisions of different origins,
\* one the service's and one the error fallback
C10_Witness ==
    /\ variant \in {"nvidia", "nv2"}
    /\ ledger # <<>>
    /\ \/ /\ n_suppliers["cowos"].reasoning = "fallback"
          /\ n_suppliers["hbm"].reasoning = "ai"
       \/ /\ v_aiReasoning["cowos"] = "ai"
          /\ v_aiReasoning["hbm"] = "fallback"


\* the terminal state of the mounted game
Terminal ==
    \/ variant = "beer" /\ b_gameState = "GAME_OVER"
    \/ variant = "nvidia" /\ n_gameState = "END"
    \/ variant = "food" /\ f_gameOver
    \/ variant = "nv2" /\ v_gameState = "gameover"

\* the week counters and the histories of the games
WeekCounters == <<b_currentWeek, n_week, f_week, v_week>>
Histories == <<b_history, n_history, f_history, v_history>>

\* the state an explicit restart leaves: restartGame, startGame, the reload
FreshRun ==
    \/ variant = "nvidia" /\ n_gameState = "START" /\ n_week = 1 /\ n_history = <<>>
    \/ variant = "nv2" /\ v_gameState = "playing" /\ v_week = 1 /\ v_history = <<>>
    \/ variant = "food" /\ ~f_gameOver /\ f_week = 1 /\ f_history = FoodInitialHistory

\* the last week of the horizon has been settled
HorizonSettled ==
    \/ variant = "beer" /\ b_gameState \notin {"INTRO", "SETUP"}
          /\ hasHistoryEntry(b_history, totalWeeks, ROLES[4])
    \/ variant = "nvidia" /\ Len(n_history) >= MAX_WEEKS
    \/ variant = "food" /\ f_week >= MAX_WEEKS
    \/ variant = "nv2" /\ Len(v_history) >= MAX_WEEKS

\* C11 (terminal state): once the last week of the horizon is settled the
\* game is in its terminal state (in the Beer Game: on the summary of the
\* last week, whose only button leads to GAME_OVER), and a step taken in the
\* terminal state either is the explicit restart or leaves the week counter
\* and the history as they are.
C11_Terminal ==
    /\ [](HorizonSettled => (Terminal \/ (variant = "beer" /\ b_gameState = "SUMMARY")))
    /\ [][ Terminal =>
              \/ FreshRun'
              \/ WeekCounters' = WeekCounters /\ Histories' = Histories ]_vars

\* the Beer Game over after a full run, and the Nvidia game over likewise
C11_Witness ==
    /\ Terminal
    /\ HorizonSettled
    /\ variant \in {"beer", "nvidia"}
    /\ variant = "beer" => Len(b_history) = 8 + 4 * totalWeeks

\* C12 (horizon): when the terminal state is reached, each of the weeks
\* 1..20 has been settled exactly once in the run: in the Beer Game every
\* role has exactly one committed entry per week, in the other games the
\* run has settled the weeks 1, 2, ..., 20 in this order.
C12_Horizon ==
    Terminal =>
        /\ variant = "beer" =>
              \A w \in 1..totalWeeks, i \in 1..4 :
                  Cardinality(EntryIndexes(b_history, w, ROLES[i])) = 1
        /\ variant # "beer" =>
              /\ Len(ledger) = MAX_WEEKS
              /\ \A k \in 1..Len(ledger) : ledger[k].week = k

\* the running total cost of the mounted game: player.cash, score.total,
\* totalCost, and the total the GAME_OVER screen of the Beer Game computes
RunningTotal ==
    CASE variant = "beer" ->
            SumSeq([i \in 1..Len(b_history) |->
                       IF b_history[i].week > 0 THEN b_history[i].cost ELSE 0],
                   Len(b_history))
      [] variant = "nvidia" -> n_player.cash
      [] variant = "food" -> f_totalCost
      [] variant = "nv2" -> v_score.total

\* the cost rates of the mounted game
HoldingRate ==
    CASE variant = "beer" -> costHolding
      [] variant = "nvidia" -> HOLDING_COST_PER_UNIT
      [] variant = "food" -> FOOD_HOLDING_COST
      [] variant = "nv2" -> V2_HOLDING_COST

BacklogRate ==
    CASE variant = "beer" -> costBacklog
      [] variant = "nvidia" -> BACKLOG_COST_PER_UNIT
      [] variant = "food" -> FOOD_BACKLOG_COST
      [] variant = "nv2" -> V2_BACKLOG_COST

\* the holding and backlog cost of one echelon transition; the player of the
\* Nvidia games has one transition per component and one backlog for both,
\* which is counted with the first
TransitionCost(t) ==
    t.newInventory * HoldingRate
    + (IF t.echelon = "player" /\ t.kind = "hbm" THEN 0
       ELSE t.newBacklog * BacklogRate)

RECURSIVE CostOfAll(_)
\* the cost of a set of echelon transitions
CostOfAll(S) ==
    IF S = {} THEN 0
    ELSE LET t == CHOOSE x \in S : TRUE
         IN  TransitionCost(t) + CostOfAll(S \ {t})

RECURSIVE LedgerCost(_, _)
\* the cost of the transitions in E of the first n settled weeks
LedgerCost(E, n) ==
    IF n = 0 THEN 0
    ELSE LedgerCost(E, n - 1)
         + CostOfAll({t \in ledger[n].echelons : t.echelon \in E})

\* the echelons of the games
AllEchelons == {"player", "dc", "cowos", "hbm", "aryzta", "tyson"}

\* C13 (cost accumulator): the running total cost equals the sum, over all
\* settled weeks and all echelons, the AI suppliers included, of
\* new inventory * holding rate + new backlog * backlog rate; the Beer Game
\* leaves out the seeded weeks -1 and 0.
C13_CostAccumulator ==
    /\ variant = "beer" =>
          RunningTotal =
             SumSeq([i \in 1..Len(b_history) |->
                        IF b_history[i].week >= 1
                        THEN b_history[i].inventory * HoldingRate
                             + b_history[i].backlog * BacklogRate
                        ELSE 0],
                    Len(b_history))
    /\ variant # "beer" => RunningTotal = LedgerCost(AllEchelons, Len(ledger))

\* what the running total cost is computed from
CostState == <<b_history, n_player.cash, f_totalCost, v_score.total>>

\* C14 (monotonic cost): a step that settles a week (a role's week in the
\* Beer Game) never lowers the running total cost (a step that leaves the
\* history and the accumulators alone keeps it); only a restart, which drops
\* the settled weeks, sets it back.
C14_MonotonicCost ==
    [][ (Len(ledger') >= Len(ledger) /\ Len(b_history') >= Len(b_history))
           => \/ CostState' = CostState
              \/ RunningTotal' >= RunningTotal ]_vars

\* two weeks settled one after the other, each with a cost of its own
C14_Witness ==
    /\ Len(ledger) >= 2
    /\ LedgerCost({"player", "dc"}, Len(ledger) - 1) > 0
    /\ RunningTotal > LedgerCost({"player", "dc"}, Len(ledger) - 1)

\* h is a prefix of g
IsPrefix(h, g) == Len(h) <= Len(g) /\ SubSeq(g, 1, Len(h)) = h

\* C15 (history is append-only): every step of a game that is not a restart
\* (handleStartGame from the SETUP screen, restartGame, startGame, the
\* reload) leaves the entries of the history where and as they are: the
\* history before the step is a prefix of the history after it.
C15_AppendOnly ==
    [][ \/ variant = "beer" /\ b_gameState = "SETUP" /\ b_gameState' = "HANDOFF"
        \/ variant # "beer" /\ Terminal /\ FreshRun'
        \/ variant = "nv2" /\ v_gameState = "start" /\ FreshRun'
        \/ /\ IsPrefix(b_history, b_history')
           /\ IsPrefix(n_history, n_history')
           /\ IsPrefix(f_history, f_history')
           /\ IsPrefix(v_history, v_history') ]_vars

\* a history to which two weeks of a run have been appended
C15_Witness ==
    \/ variant = "beer" /\ Len(b_history) >= Len(seedData) + 2 * 4
    \/ variant = "nvidia" /\ Len(n_history) >= 2
    \/ variant = "food" /\ Len(f_history) >= Len(FoodInitialHistory) + 2
    \/ variant = "nv2" /\ Len(v_history) >= 2

\* the entries of the Beer Game history up to the i-th all carry an order of 4
AllOrdersFour(i) == \A j \in 1..i : b_history[j].orderPlaced = 4

\* C16 (equilibrium start, Beer Game): as long as the consumer demand is 4
\* (weeks 1-4) and every order placed so far is 4, every committed entry of
\* every role has inventory 12, backlog 0 and shipped 4.
C16_Equilibrium ==
    \A i \in 1..Len(b_history) :
        (getConsumerDemand(b_history[i].week) = 4 /\ AllOrdersFour(i)) =>
            /\ b_history[i].inventory = 12
            /\ b_history[i].backlog = 0
            /\ b_history[i].shipped = 4

\* weeks 1-4 played with every role ordering 4 and still at equilibrium, and
\* the retailer's entry of week 5, the first week with a consumer demand of
\* 8, off the equilibrium
C16_Witness ==
    \E i, j \in 1..Len(b_history) :
        /\ b_history[i].week = 4 /\ b_history[i].roleId = ROLES[4]
        /\ AllOrdersFour(i)
        /\ b_history[i].inventory = 12
        /\ b_history[j].week = 5 /\ b_history[j].roleId = ROLES[1]
        /\ b_history[j].inventory # 12

\* the index (0..3) of a role
RoleIndex(roleId) == CHOOSE i \in 0..3 : ROLES[i + 1] = roleId

\* every order committed so far is the demand its role had just received
PassThrough ==
    \A i \in 1..Len(b_history) :
        b_history[i].week >= 1 =>
            b_history[i].orderPlaced =
                getIncomingDemand(b_history, RoleIndex(b_history[i].roleId),
                                  b_history[i].week)

RECURSIVE PassThroughOrder(_, _, _)
\* the order of a role in a week when every role orders the demand it has
\* just received and an order takes d weeks to reach the next role
\* (getIncomingDemand with d for CONFIG.orderDelay; 4 before week 1)
PassThroughOrder(d, roleIndex, week) ==
    IF week < 1 THEN 4
    ELSE IF roleIndex = 0 THEN getConsumerDemand(week)
    ELSE PassThroughOrder(d, roleIndex - 1, week - d)

\* the largest order of the manufacturer over the run, minus 4
PassThroughAmplitude(d) ==
    LET orders == {PassThroughOrder(d, 3, w) : w \in 1..totalWeeks}
    IN  (CHOOSE m \in orders : \A o \in orders : o <= m) - 4

\* the largest order the manufacturer has committed in weeks >= 1, minus 4
ManufacturerAmplitude ==
    LET orders == {b_history[i].orderPlaced :
                      i \in {j \in 1..Len(b_history) :
                                 b_history[j].week >= 1
                                 /\ b_history[j].roleId = ROLES[4]}}
    IN  (CHOOSE m \in orders : \A o \in orders : o <= m) - 4

\* a run of twenty weeks in which every role ordered the demand it received
PassThroughRun == b_gameState = "GAME_OVER" /\ PassThrough

\* C17 as stated: in such a run the manufacturer's order amplitude exceeds
\* the jump of 4 of the consumer demand.
C17_Amplification == PassThroughRun => ManufacturerAmplitude > 4

\* C17 (single-step shock, amended): in a run of twenty weeks in which every
\* role orders the demand it has just received, the order of role r in week
\* w is the consumer demand of week w - r * orderDelay; the manufacturer's
\* orders never exceed 8, and
\* over a full run its amplitude is exactly 4, the jump of the consumer
\* demand: nothing is amplified. With the delay reduced to 0 the amplitude
\* is still 4; the delay only moves the week in which the jump arrives.
C17_NoAmplification ==
    PassThroughRun =>
        /\ \A i \in 1..Len(b_history) :
              b_history[i].week >= 1 =>
                  b_history[i].orderPlaced =
                      PassThroughOrder(orderDelay,
                                       RoleIndex(b_history[i].roleId),
                                       b_history[i].week)
        /\ ManufacturerAmplitude = 4
        /\ \A d \in 0..2 : PassThroughAmplitude(d) = 4
        /\ \A d \in 0..2, w \in 1..totalWeeks :
              PassThroughOrder(d, 3, w) = IF w <= 4 + 3 * d THEN 4 ELSE 8

\* the end of a run in which every role ordered the demand it received and
\* the manufacturer saw the larger demand from week 8 on
C17_Witness ==
    /\ PassThroughRun
    /\ \E i, j \in 1..Len(b_history) :
          /\ b_history[i].roleId = ROLES[4] /\ b_history[i].week = 7
          /\ b_history[i].orderPlaced = 4
          /\ b_history[j].roleId = ROLES[4] /\ b_history[j].week = 8
          /\ b_history[j].orderPlaced = 8

\* a Beer Game history in which the wholesaler enters week 1 with nothing in
\* stock and nothing owed, the distributor shipped nothing two weeks before
\* and the retailer has just ordered 100
StockoutHistory ==
    [i \in 1..8 |->
        [week |-> IF i <= 4 THEN -1 ELSE 0,
         roleId |-> ROLES[((i - 1) % 4) + 1],
         inventory |-> IF i = 6 THEN 0 ELSE 12,
         backlog |-> 0,
         orderPlaced |-> IF i = 5 THEN 100 ELSE 4,
         shipped |-> IF i = 3 THEN 0 ELSE 4,
         cost |-> IF i = 6 THEN 0 ELSE 12]]

\* an echelon transition that starts with an empty stock and receives nothing
Stockout(t) == t.priorInventory = 0 /\ t.arriving = 0

\* the newest messages of the fast-food log hold a stockout error (a shock
\* warning for week 5 may have been added after it)
StockoutMessage ==
    /\ Len(f_messages) >= 1
    /\ \/ f_messages[1] = "error"
       \/ Len(f_messages) >= 2 /\ f_messages[1] = "warning"
                                /\ f_messages[2] = "error"

\* C18 (stockout): an echelon that enters a week with inventory 0 and gets
\* no arrival ships nothing, keeps inventory 0 and ends the week owing its
\* prior backlog plus the demand of the week; for a demand of 100 and no
\* prior backlog that is shipped 0, backlog 100, inventory 0; when the
\* fast-food DC ends a week of the run with a backlog, an 'error' message is
\* logged.
C18_Stockout ==
    /\ \A t \in tx :
          Stockout(t) =>
              /\ t.shipped = 0
              /\ t.newInventory = 0
              /\ t.newBacklog = t.priorBacklog + t.incoming
    /\ (Len(ledger) > 0 /\ \E t \in tx : t.echelon = "dc" /\ t.newBacklog > 0)
          => StockoutMessage
    /\ \A item \in Items :
          LET t == FoodPlayerTransition(item, 0, 0, 100, 0, 1)
          IN  t.shipped = 0 /\ t.newBacklog = 100 /\ t.newInventory = 0
    /\ LET t == BeerTransition(StockoutHistory, 1, 1)
       IN  /\ Stockout(t) /\ t.incoming = 100 /\ t.priorBacklog = 0
           /\ t.shipped = 0 /\ t.newBacklog = 100 /\ t.newInventory = 0

\* the fast-food DC has just settled a week that it entered with no stock of
\* an ingredient, with no delivery and a positive demand, and the stockout
\* has been logged
C18_Witness ==
    /\ \E t \in tx :
          /\ t.echelon = "dc" /\ Stockout(t) /\ t.incoming > 0
          /\ t.shipped = 0 /\ t.newBacklog >= t.incoming
    /\ StockoutMessage

\* the transition of Tyson in the settlement that has just been committed
TysonSettled == CHOOSE r \in tx' : r.echelon = "tyson"

\* the settlement of a fast-food week in which Tyson ships less than it owes
TysonShortfall ==
    /\ variant \in {"food"}
    /\ Len(ledger') = Len(ledger) + 1
    /\ TysonSettled.shipped < TysonSettled.incoming + TysonSettled.priorBacklog

\* C19 (proportional shortfall): when Tyson ships less than it owes, the
\* shipment created for the DC holds, for beef and for fish,
\* floor(order of the kind * shipped / total owed); a pool of 50 facing
\* orders of 60 and 20 ships 50, split into 37 and 12.
C19_ProportionalShortfall ==
    [][/\ TysonShortfall =>
            LET t == TysonSettled
                owed == t.incoming + t.priorBacklog
                q == f_shipments'[Len(f_shipments')].quantities
            IN  /\ q["beef"] = (f_playerOrder["beef"] * t.shipped) \div owed
                /\ q["fish"] = (f_playerOrder["fish"] * t.shipped) \div owed
       /\ shipToPlayer(50, 60 + 20).shippedAmount = 50
       /\ FoodRatioShip(60, 50, 80) = 37
       /\ FoodRatioShip(20, 50, 80) = 12]_vars

\* the suppliers of the first Nvidia game as the component is constructed
NvFreshSuppliers ==
    [c \in Components |->
        NvInitSupplier(IF c = "cowos" THEN "TSMC" ELSE "SK Hynix")]

\* restartGame of the first Nvidia game leaves the fresh values
NvRestartIsFresh ==
    (n_gameState = "END" /\ n_gameState' = "START") =>
        /\ n_week' = 1
        /\ n_player' = NvInitPlayer
        /\ n_suppliers' = NvFreshSuppliers
        /\ n_history' = <<>>

\* handleStartGame of the Beer Game leaves the fresh values
BeerRestartIsFresh ==
    (b_gameState = "SETUP" /\ b_gameState' = "HANDOFF") =>
        /\ b_currentWeek' = 1 /\ b_turnIndex' = 0
        /\ b_history' = seedData
        /\ b_aiReasoning' = "null"

\* startGame of the second Nvidia game leaves the fresh values
V2RestartIsFresh ==
    (v_gameState = "gameover" /\ v_gameState' = "playing") =>
        /\ v_week' = 1
        /\ v_inventory' = [c \in Components |-> V2_INITIAL_INVENTORY]
        /\ v_blackwellBacklog' = 0
        /\ v_userShipments' = <<>>
        /\ v_suppliers' = V2InitSuppliers
        /\ v_score' = [current |-> 0, total |-> 0]
        /\ v_history' = <<>>
        /\ v_aiReasoning' = [c \in Components |-> "null"]

\* the reload of the fast-food game leaves the fresh values
FoodRestartIsFresh ==
    (f_gameOver /\ ~f_gameOver') =>
        /\ f_week' = 1
        /\ f_inventory' = generateInitialInventory
        /\ f_backlog' = [buns |-> 0, beef |-> 0, fish |-> 0]
        /\ f_totalCost' = 0
        /\ f_aryztaState' = generateSupplierState("Aryzta (Buns)", 3000)
        /\ f_tysonState' = generateSupplierState("Tyson (Protein)", 3000)
        /\ f_shipments' = <<>>
        /\ f_history' = FoodInitialHistory

\* C20 (restart): the step that restarts a finished game leaves every
\* echelon attribute (inventory, backlog, pipelines, last order, last
\* rationale), the week counter, the cost accumulator and the history at
\* their values of a freshly started game.
C20_RestartIsFresh ==
    [][/\ NvRestartIsFresh
       /\ BeerRestartIsFresh
       /\ V2RestartIsFresh
       /\ FoodRestartIsFresh]_vars

-----------------------------------------------------------------------------
(* Claims C21 - C30 *)

\* the values the random demand multiplier can take, in thousandths
RandomMultipliers == {FoodDefaultMultiplier} \cup FoodOtherMultipliers

\* C21 (reproducible demand): the store demand generated for the next week of
\* the fast-food game is the same for every value the random generator can
\* return, so that two runs with the same decisions see the same demand in
\* every week, the non-shock weeks included.
C21_ReproducibleDemand ==
    [][(variant \in {"food"} /\ f_week' = f_week + 1) =>
          \A m \in RandomMultipliers :
              f_storeOrders' = FoodNextStoreOrders(f_week', m)]_vars

\* what a supplier shipped in the settled week of a ledger entry
ShippedBy(entry, supplier) ==
    (CHOOSE t \in entry.echelons : t.echelon = supplier).shipped

\* C22 (shipment hand-over): in every settled week the quantity entered into
\* the player's inbound pipeline from a supplier equals the quantity that
\* supplier shipped in that week; for Tyson the beef plus the fish scheduled
\* equal the shipped amount of processSupplier.
C22_ShipmentHandOver ==
    \A k \in 1..Len(ledger) :
        IF variant = "food"
        THEN /\ ledger[k].scheduled.dc_buns = ShippedBy(ledger[k], "aryzta")
             /\ ledger[k].scheduled.dc_beef + ledger[k].scheduled.dc_fish
                   = ShippedBy(ledger[k], "tyson")
        ELSE /\ ledger[k].scheduled.player_cowos = ShippedBy(ledger[k], "cowos")
             /\ ledger[k].scheduled.player_hbm = ShippedBy(ledger[k], "hbm")

\* the number of history entries of a role for a week
EntryCount(week, roleId) == Cardinality(EntryIndexes(b_history, week, roleId))

\* C23 (one transition per echelon per period, Beer Game): a step that adds
\* an entry to the history adds it for the current week and for a role that
\* has none for that week yet; the history changes in no other way except by
\* a restart; and the week is left, for the next one or for the end of the
\* game, only when every role has exactly one entry for it. This holds
\* whether the role is played by a human or by the AI.
C23_OneTransitionPerWeek ==
    [][variant = "beer" =>
          /\ Len(b_history') = Len(b_history) + 1 =>
                /\ b_history'[Len(b_history')].week = b_currentWeek
                /\ EntryCount(b_currentWeek, b_history'[Len(b_history')].roleId) = 0
                /\ SubSeq(b_history', 1, Len(b_history)) = b_history
          /\ (b_history' # b_history /\ Len(b_history') # Len(b_history) + 1) =>
                b_history' = seedData
          /\ (\/ b_currentWeek' = b_currentWeek + 1
              \/ b_gameState # "GAME_OVER" /\ b_gameState' = "GAME_OVER") =>
                \A r \in 1..4 : EntryCount(b_currentWeek, ROLES[r]) = 1]_vars

\* week 1 has been played by a human role and by an AI role, and the second
\* week is under way
C23_Witness ==
    /\ b_currentWeek = 2
    /\ b_gameState = "PLAY"
    /\ \E r, q \in 1..4 :
          /\ b_playerTypes[ROLES[r]] = "AI"
          /\ b_playerTypes[ROLES[q]] = "HUMAN"
          /\ EntryCount(1, ROLES[r]) = 1
          /\ EntryCount(1, ROLES[q]) = 1
          /\ EntryCount(2, ROLES[1]) = 1

\* C24 (fixed resolution order, Beer Game): after the seed, the entries of
\* the history are those of week 1, 2, ... and within each week those of the
\* retailer, the wholesaler, the distributor and the manufacturer, in this
\* order; the roles that have an entry for the current week are those before
\* turnIndex while a week is played, and all four in the SUMMARY state.
C24_ResolutionOrder ==
    /\ \A i \in (Len(seedData) + 1)..Len(b_history) :
          /\ b_history[i].week = 1 + ((i - Len(seedData) - 1) \div 4)
          /\ b_history[i].roleId = ROLES[((i - Len(seedData) - 1) % 4) + 1]
    /\ b_gameState = "SUMMARY" =>
          \A r \in 1..4 : hasHistoryEntry(b_history, b_currentWeek, ROLES[r])
    /\ b_gameState \in {"HANDOFF", "PLAY"} =>
          \A r \in 1..4 :
              hasHistoryEntry(b_history, b_currentWeek, ROLES[r])
                  <=> r <= b_turnIndex

\* the summary of the second week, with the four entries of the week
\* committed in the order of the roles
C24_Witness ==
    /\ b_gameState = "SUMMARY"
    /\ b_currentWeek = 2
    /\ Len(b_history) = Len(seedData) + 8
    /\ b_history[Len(b_history)].roleId = ROLES[4]
    /\ b_history[Len(b_history) - 3].roleId = ROLES[1]

\* ---------------------------------------------------------------------
\* C25: which decision an echelon receives as its order, and whether the
\* transitions of one period depend on each other.

\* the entries of the weeks before the given one
PriorWeeks(h, week) == SelectSeq(h, LAMBDA e : e.week < week)

\* the order the supplier received in the settled week of a ledger entry
OrderReceived(entry, supplier) ==
    (CHOOSE t \in entry.echelons : t.echelon = supplier).incoming

\* what the player has decided to order from the supplier in the current
\* week: the order that the submit has parsed
OrderDecided(supplier) ==
    CASE variant = "food" /\ supplier = "aryzta" -> f_playerOrder.buns
      [] variant = "food" /\ supplier = "tyson"  ->
            f_playerOrder.beef + f_playerOrder.fish
      [] variant = "nvidia" -> n_call.order[supplier]
      [] OTHER              -> v_orders[supplier]

SuppliersOf(v) == IF v = "food" THEN {"aryzta", "tyson"} ELSE Components

\* what the player's queue hands over in the given week
PlayerArrivals(v, queue, week) ==
    CASE v = "food" -> FoodArrivingShipment(queue, week).quantities
      [] OTHER      -> [c \in Components |->
                           SumArrivingOf(queue, c, week, Len(queue))]

PlayerQueue == CASE variant = "food"   -> f_shipments
                 [] variant = "nvidia" -> n_player.pipeline
                 [] OTHER              -> v_userShipments

\* C25 as stated: the order an echelon receives in period p is a decision of
\* its downstream neighbour from an earlier period, never the one made in p:
\* a supplier of the single-player games receives an order that it has
\* received in an earlier week already, or none
C25_PriorPeriodOrder ==
    [][/\ (variant = "beer" /\ Len(b_history') = Len(b_history) + 1) =>
             \A t \in tx' :
                 t.incoming = IF t.echelon = ROLES[1]
                              THEN getConsumerDemand(t.week)
                              ELSE getHistoryEntry(b_history, t.week - 1,
                                       ROLES[RoleIndex(t.echelon)]).orderPlaced
       /\ (variant # "beer" /\ Len(ledger') = Len(ledger) + 1) =>
             \A s \in SuppliersOf(variant) :
                 \/ OrderReceived(ledger'[Len(ledger')], s) = 0
                 \/ \E j \in 1..Len(ledger) :
                       OrderReceived(ledger'[Len(ledger')], s)
                          = OrderReceived(ledger[j], s)]_vars

\* C25, amended: in the Beer Game the order a role receives in week w is the
\* order its downstream neighbour placed in week w - 1; in the single-player
\* games the suppliers receive the order the player decided in the same week;
\* in every game the week's transitions do not use each other's results: the
\* Beer transition is the one computed from the entries of earlier weeks
\* alone, and what the player's queue hands over is the same before and
\* after the suppliers' shipments of the week have been entered
C25_NoIntraPeriodDependency ==
    [][/\ (variant = "beer" /\ Len(b_history') = Len(b_history) + 1) =>
             \A t \in tx' :
                 /\ t.incoming = IF t.echelon = ROLES[1]
                                 THEN getConsumerDemand(t.week)
                                 ELSE getHistoryEntry(b_history, t.week - 1,
                                          ROLES[RoleIndex(t.echelon)]).orderPlaced
                 /\ t = BeerTransition(PriorWeeks(b_history, t.week),
                                       RoleIndex(t.echelon), t.week)
       /\ (variant # "beer" /\ Len(ledger') = Len(ledger) + 1) =>
             LET e == ledger'[Len(ledger')]
             IN  /\ \A s \in SuppliersOf(variant) :
                        OrderReceived(e, s) = OrderDecided(s)
                 /\ PlayerArrivals(variant, PlayerQueue', e.week)
                       = PlayerArrivals(variant, PlayerQueue, e.week)]_vars

\* two weeks of the fast-food game are settled; the player has ordered buns in
\* the first week only, and Aryzta has received the order in the first week
\* and none in the second
C25_Witness ==
    /\ variant \in {"food"}
    /\ Len(ledger) = 2
    /\ OrderReceived(ledger[1], "aryzta") > 0
    /\ OrderReceived(ledger[2], "aryzta") = 0
    /\ f_aryztaState.lastOrderReceived = 0

\* ---------------------------------------------------------------------
\* C26: the two supplier policies of a period are asked concurrently; the
\* settlement does not depend on which call completes first.

\* the decisions getAITurn can return for supplier c in the current state
NvDecisionsFor(c) ==
    {NvGetAITurn(apiKey, a, n_suppliers[c].backlog, n_call.order[c]) :
        a \in {NvDefaultAnswer} \cup NvOtherAnswers}

V2DecisionsFor(c) ==
    {V2GetAITurn(apiKey, a, v_suppliers[c], v_orders[c]) :
        a \in {V2DefaultAnswer} \cup V2OtherAnswers}

\* a completion in nvidia: one pending decision is filled in, from the data
\* of its own supplier; nothing else that the settlement reads changes
NvCompletion ==
    (variant = "nvidia" /\ n_call.active /\ n_call'.active /\ n_call' # n_call) =>
        /\ \E c \in Components :
              /\ n_call.decision[c].src = "none"
              /\ n_call'.decision[c] \in NvDecisionsFor(c)
              /\ \A o \in Components \ {c} : n_call'.decision[o] = n_call.decision[o]
        /\ n_call'.order = n_call.order
        /\ <<n_week, n_player, n_suppliers, n_history, ledger>>'
              = <<n_week, n_player, n_suppliers, n_history, ledger>>

V2Completion ==
    (variant = "nv2" /\ v_run.pc = "calls" /\ v_run'.pc = "calls" /\ v_run' # v_run) =>
        /\ \E c \in Components :
              /\ v_run.decision[c].src = "none"
              /\ v_run'.decision[c] \in V2DecisionsFor(c)
              /\ \A o \in Components \ {c} : v_run'.decision[o] = v_run.decision[o]
        /\ <<v_week, v_inventory, v_blackwellBacklog, v_userShipments,
             v_suppliers, v_score, v_history, v_orders, ledger>>'
              = <<v_week, v_inventory, v_blackwellBacklog, v_userShipments,
                  v_suppliers, v_score, v_history, v_orders, ledger>>

\* a settlement in nvidia starts only when both decisions are there and gives
\* each supplier the transition and the decision made for it
NvSettlement ==
    (variant = "nvidia" /\ Len(ledger') = Len(ledger) + 1) =>
        \A c \in Components :
            /\ n_call.decision[c].src # "none"
            /\ n_suppliers'[c] =
                  updateSupplier(n_suppliers[c],
                                 NvSupplierTransition(n_suppliers[c], c, n_week,
                                                      n_call.order[c]),
                                 n_call.decision[c])

V2Settlement ==
    (variant = "nv2" /\ Len(ledger') = Len(ledger) + 1) =>
        \A c \in Components :
            /\ v_run.decision[c].src # "none"
            /\ v_suppliers'[c] =
                  V2processSupplier(c, v_orders[c], v_run.decision[c],
                                    v_suppliers[c], v_week).state
            /\ v_aiReasoning'[c] = v_run.decision[c].src

\* C26: whichever of the two concurrent calls completes first, each decision
\* is the one made for its own supplier from the state of the submit, the
\* engine state is untouched until both are there, and the settlement is a
\* function of that state and the two decisions
C26_CompletionOrderIndependence ==
    [][NvCompletion /\ V2Completion /\ NvSettlement /\ V2Settlement]_vars

\* one week is settled and, in the next, the call for HBM has completed
\* while the one for CoWoS, issued first, is still pending; the two orders
\* of the player differ
C26_Witness ==
    /\ variant \in {"nvidia"}
    /\ Len(ledger) = 1
    /\ n_call.active
    /\ n_call.decision["hbm"].src # "none"
    /\ n_call.decision["cowos"].src = "none"
    /\ n_call.order["cowos"] # n_call.order["hbm"]

\* ---------------------------------------------------------------------
\* C27: while the decisions of a period are being obtained the engine state
\* does not move.

\* decisions have been requested and the resolution has not started
Thinking ==
    CASE variant = "beer"   -> b_isAIThinking
      [] variant = "nvidia" -> n_gameState = "THINKING"
      [] variant = "food"   -> f_turnPhase \in {"AI_ARYZTA", "AI_TYSON", "PROCESSING"}
      [] OTHER              -> v_turnPhase = "ai_turn"

FoodSupplierStock(s) ==
    [inventory |-> s.inventory, backlog |-> s.backlog,
     productionQueue |-> s.productionQueue]

NvSupplierStock(s) ==
    [inventory |-> s.inventory, backlog |-> s.backlog, pipeline |-> s.pipeline]

\* inventories, backlogs and pipelines of every echelon, the week counter,
\* the cost accumulator and the history
EngineState ==
    CASE variant = "beer"   -> <<b_history, b_currentWeek>>
      [] variant = "nvidia" ->
            <<n_player, [c \in Components |-> NvSupplierStock(n_suppliers[c])],
              n_week, n_history>>
      [] variant = "food"   ->
            <<f_inventory, f_backlog, f_shipments,
              FoodSupplierStock(f_aryztaState), FoodSupplierStock(f_tysonState),
              f_week, f_totalCost, f_history>>
      [] OTHER              ->
            <<v_inventory, v_blackwellBacklog, v_userShipments, v_suppliers,
              v_week, v_score, v_history>>

\* C27: a step that enters a thinking phase or stays in one leaves the
\* inventory, backlog and pipeline of every echelon, the week counter, the
\* cost accumulator and the history as they were
C27_PolicyPurity ==
    [][Thinking' => EngineState' = EngineState]_vars

\* the fast-food game is in Tyson's thinking phase of its second week, with
\* Aryzta's decision of the week already taken
C27_Witness ==
    /\ variant \in {"food"}
    /\ f_turnPhase = "AI_TYSON"
    /\ f_week = 2
    /\ f_seq.aryztaDecision.src # "none"
    /\ f_aryztaState.lastProductionOrder = f_seq.aryztaDecision.order

\* ---------------------------------------------------------------------
\* C28: what the state shows of each AI supplier after a settlement.

\* the fast-food supplier shows the decision used for the settled week and
\* has logged the week
FoodSnapshot(state, decision, week) ==
    /\ state.lastProductionOrder = decision.order
    /\ state.lastReasoning = decision.src
    /\ \E i \in 1..Len(state.history) :
          /\ state.history[i].week = week
          /\ state.history[i].production = decision.order

NvSnapshot(sup, decision) ==
    /\ sup.lastOrder = decision.order
    /\ sup.reasoning = decision.src

FoodSnapshotAfterSettlement ==
    (variant = "food" /\ Len(ledger') = Len(ledger) + 1) =>
        /\ FoodSnapshot(f_aryztaState', f_seq.aryztaDecision, f_week)
        /\ FoodSnapshot(f_tysonState', f_seq.tysonDecision, f_week)

NvSnapshotAfterSettlement ==
    (variant = "nvidia" /\ Len(ledger') = Len(ledger) + 1) =>
        /\ \A c \in Components : NvSnapshot(n_suppliers'[c], n_call.decision[c])
        /\ n_history'[Len(n_history')].week = n_week

\* C28: the state reached by a settlement shows, for each AI supplier, the
\* order and the rationale of the decision used for the settled period, and
\* the supplier's history has an entry for the period
C28_SnapshotAfterSettlement ==
    [][FoodSnapshotAfterSettlement /\ NvSnapshotAfterSettlement]_vars

\* ---------------------------------------------------------------------
\* C29: what the message log says of a period resolved in degraded mode.

\* a decision that did not come from the remote model
Degraded(decision) == decision.src \in {"nokey", "fallback"}

\* the log after the step is the log before it with some messages put in
\* front (and the oldest dropped), one of them of the given severity
MessageAdded(severity) ==
    \E k \in 1..Len(f_messages') :
        /\ SubSeq(f_messages', k + 1, Len(f_messages'))
              = SubSeq(f_messages, 1, Len(f_messages') - k)
        /\ \E i \in 1..k : f_messages'[i] = severity

\* C29: whenever a week of the fast-food game is resolved with a fallback
\* decision of either supplier, the resolution adds a message of severity
\* 'warning' to the message log
C29_DegradedModeWarning ==
    [][(/\ variant = "food" /\ Len(ledger') = Len(ledger) + 1
        /\ (Degraded(f_seq.aryztaDecision) \/ Degraded(f_seq.tysonDecision)))
          => MessageAdded("warning")]_vars

\* ---------------------------------------------------------------------
\* C30: the week counter.

CurrentWeek ==
    CASE variant = "beer"   -> b_currentWeek
      [] variant = "nvidia" -> n_week
      [] variant = "food"   -> f_week
      [] OTHER              -> v_week

\* the game has been started (the second Nvidia game shows its start screen
\* with the counter at 0)
Running == ~(variant = "nv2" /\ v_gameState = "start")

\* the step completes the settlement of the current week
WeekSettled ==
    IF variant = "beer"
    THEN /\ b_gameState = "SUMMARY"
         /\ \A r \in 1..4 : hasHistoryEntry(b_history, b_currentWeek, ROLES[r])
    ELSE /\ Len(ledger') = Len(ledger) + 1
         /\ ledger'[Len(ledger')].week = CurrentWeek

\* the step is a start or restart that leaves a fresh game
WeekReset ==
    CASE variant = "beer"   -> b_history' = seedData
      [] variant = "nvidia" -> n_gameState = "END" /\ n_history' = <<>>
      [] variant = "food"   -> f_gameOver /\ ~f_gameOver'
      [] OTHER              -> v_gameState # "playing" /\ v_history' = <<>>

\* the demand table lookup of a settlement is inside the table
LookupInBounds ==
    (variant \in {"nvidia", "nv2"} /\ Len(ledger') = Len(ledger) + 1) =>
        /\ ledger'[Len(ledger')].week \in 1..Len(DEMAND_SCHEDULE)
        /\ ledger'[Len(ledger')].week \in 1..Len(DEMAND_CURVE)

\* C30: the week counter changes only by +1, at the settlement of the current
\* week, or to 1, at a start or restart; in a running game it is between 1
\* and 20, so every demand table lookup is inside the table
C30_OnePeriodAtATime ==
    /\ [](Running => CurrentWeek \in 1..MAX_WEEKS)
    /\ [][/\ CurrentWeek' # CurrentWeek =>
                \/ CurrentWeek' = CurrentWeek + 1 /\ WeekSettled
                \/ CurrentWeek' = 1 /\ WeekReset
          /\ LookupInBounds]_vars

\* the last week of the first Nvidia game is being played after nineteen
\* settlements that each moved the counter by one
C30_Witness ==
    /\ variant \in {"nvidia"}
    /\ n_week = MAX_WEEKS
    /\ n_gameState = "PLAY"
    /\ Len(ledger) = MAX_WEEKS - 1
    /\ \A k \in 1..Len(ledger) : ledger[k].week = k

\* =====================================================================
\* Claims C31 - C38
\* =====================================================================

\* the Game Over screen is shown
GameOverShown ==
    CASE variant = "food"   -> f_gameOver
      [] variant = "nvidia" -> n_gameState = "END"
      [] variant = "nv2"    -> v_gameState = "gameover"
      [] OTHER              -> FALSE

\* the average backlog that the Game Over screen shows
AvgBacklogShown ==
    CASE variant = "food"   -> FoodAvgBacklog
      [] variant = "nvidia" -> NvAvgBacklog
      [] OTHER              -> V2AvgBacklog

\* the backlog the player was left with in the k-th settled week
SettledBacklog(k) ==
    CASE variant = "food"   -> f_history[k + 1].backlog
      [] variant = "nvidia" -> n_history[k].backlog
      [] OTHER              -> v_history[k].backlog

RECURSIVE SumSettledBacklog(_)
SumSettledBacklog(k) ==
    IF k = 0 THEN 0 ELSE SumSettledBacklog(k - 1) + SettledBacklog(k)

\* C31: the average backlog shown at the end of a run is the sum of the
\* backlog of the settled weeks divided by the number of settled weeks,
\* rounded
C31_AverageBacklog ==
    GameOverShown =>
        AvgBacklogShown = MathRound(SumSettledBacklog(Len(ledger)), Len(ledger))

\* ---------------------------------------------------------------------
\* C32: collecting arrivals when nothing is due.

\* the transition of an echelon in the settlement that the step has made
SupplierRecord(echelon) == CHOOSE t \in tx' : t.echelon = echelon
PlayerRecord(echelon, kind) ==
    CHOOSE t \in tx' : t.echelon = echelon /\ t.kind = kind

\* the transition took nothing in
NothingCollected(t) ==
    t.arriving = 0 /\ t.newInventory + t.shipped = t.priorInventory

NvNothingDue ==
    (variant = "nvidia" /\ Len(ledger') = Len(ledger) + 1) =>
        \A c \in Components :
            /\ (\A i \in 1..Len(n_suppliers[c].pipeline) :
                    n_suppliers[c].pipeline[i].arrivalWeek # n_week)
                  => NothingCollected(SupplierRecord(c))
            /\ (\A i \in 1..Len(n_player.pipeline) :
                    ~(n_player.pipeline[i].type = c
                      /\ n_player.pipeline[i].arrivalWeek = n_week))
                  => NothingCollected(PlayerRecord("player", c))

V2NothingDue ==
    (variant = "nv2" /\ Len(ledger') = Len(ledger) + 1) =>
        \A c \in Components :
            /\ (\A i \in 1..Len(v_suppliers[c].incomingProduction) :
                    v_suppliers[c].incomingProduction[i].arrivalWeek # v_week)
                  => NothingCollected(SupplierRecord(c))
            /\ (\A i \in 1..Len(v_userShipments) :
                    ~(v_userShipments[i].type = c
                      /\ v_userShipments[i].arrivalWeek = v_week))
                  => NothingCollected(PlayerRecord("player", c))

FoodNothingDue ==
    (variant = "food" /\ Len(ledger') = Len(ledger) + 1) =>
        /\ (\A i \in 1..Len(f_seq.aryztaState.productionQueue) :
                f_seq.aryztaState.productionQueue[i].weekArrives # f_week + 1)
              => NothingCollected(SupplierRecord("aryzta"))
        /\ (\A i \in 1..Len(f_seq.tysonState.productionQueue) :
                f_seq.tysonState.productionQueue[i].weekArrives # f_week + 1)
              => NothingCollected(SupplierRecord("tyson"))
        /\ (\A i \in 1..Len(f_shipments') : f_shipments'[i].arrivalWeek # f_week + 1)
              => \A item \in Items : NothingCollected(PlayerRecord("dc", item))

\* in the Beer Game something is due in every week: the entry that
\* getIncomingShipment looks for is in the history, and its quantity arrives
BeerAlwaysDue ==
    (variant = "beer" /\ Len(b_history') = Len(b_history) + 1) =>
        \A t \in tx' :
            LET from == IF t.echelon = ROLES[4] THEN ROLES[4]
                        ELSE ROLES[RoleIndex(t.echelon) + 2]
            IN  /\ hasHistoryEntry(b_history, t.week - shippingDelay, from)
                /\ t.arriving =
                      IF t.echelon = ROLES[4]
                      THEN getHistoryEntry(b_history, t.week - shippingDelay,
                                           from).orderPlaced
                      ELSE getHistoryEntry(b_history, t.week - shippingDelay,
                                           from).shipped

\* C32: a settlement that finds no entry of a pipeline queue due for the week
\* takes the week's transition with an arrival of 0 and an inventory changed
\* by the shipment alone, in the first two weeks of a run as in any other; in
\* the Beer Game, whose history is seeded with two weeks, an entry is due in
\* every week
C32_EmptyCollection ==
    [][NvNothingDue /\ V2NothingDue /\ FoodNothingDue /\ BeerAlwaysDue]_vars

\* the first week of the fast-food game is settled: nothing was due at
\* either supplier or at the DC, and the DC has shipped from its stock
C32_Witness ==
    /\ variant \in {"food"}
    /\ Len(ledger) = 1
    /\ \A q \in DOMAIN ledger[1].released : ledger[1].released[q] = 0
    /\ \A t \in ledger[1].echelons : t.arriving = 0
    /\ \E t \in ledger[1].echelons : t.echelon = "dc" /\ t.shipped > 0

\* ---------------------------------------------------------------------
\* C33: the conversion of store orders into ingredient demand.

Stores == {"storeA", "storeB", "storeC"}

\* the store orders with every store but one ordering nothing
OnlyStore(orders, store) ==
    [s \in Stores |-> IF s = store THEN orders[s]
                      ELSE [bigMacs |-> 0, filets |-> 0]]

\* the sum of f over the three stores
OverStores(f(_)) == f("storeA") + f("storeB") + f("storeC")

\* the conversion gives 3 buns and 2 beef per Big Mac, 2 buns and 1 fish per
\* filet, summed over the stores, and is the sum of the conversions of the
\* single stores
ConversionOf(orders) ==
    LET d == calculateIngredientDemand(orders)
        buns(s) == 3 * orders[s].bigMacs + 2 * orders[s].filets
        beef(s) == 2 * orders[s].bigMacs
        fish(s) == orders[s].filets
        bunsOf(s) == calculateIngredientDemand(OnlyStore(orders, s)).buns
        beefOf(s) == calculateIngredientDemand(OnlyStore(orders, s)).beef
        fishOf(s) == calculateIngredientDemand(OnlyStore(orders, s)).fish
    IN  /\ d.buns = OverStores(buns) /\ d.buns = OverStores(bunsOf)
        /\ d.beef = OverStores(beef) /\ d.beef = OverStores(beefOf)
        /\ d.fish = OverStores(fish) /\ d.fish = OverStores(fishOf)

\* C33: the ingredient demand of the week is calculateIngredientDemand of the
\* week's store orders, which is buns = sum(3 * bigMacs + 2 * filets),
\* beef = sum(2 * bigMacs), fish = sum(filets) over the stores and additive
\* in the stores
C33_DemandConversion ==
    [](variant = "food" =>
          /\ f_currentDemand = calculateIngredientDemand(f_storeOrders)
          /\ ConversionOf(f_storeOrders))

\* the demand surge of week 5: 750 Big Macs and 150 filets in all
C33_Witness ==
    /\ variant \in {"food"}
    /\ f_week = 5
    /\ f_storeOrders["storeA"] = [bigMacs |-> 250, filets |-> 50]
    /\ f_currentDemand = [buns |-> 2550, beef |-> 1500, fish |-> 150]

\* ---------------------------------------------------------------------
\* C34: the decision of an AI role of the Beer Game is applied to the turn
\* for which it was requested.

\* a request of the AI effect, or one of its two timers, is outstanding
AIPending == b_ai.phase \in {"pending", "resolved", "shown"}

\* the game is where it was when the request was issued
AIInPlace ==
    /\ b_gameState = "PLAY"
    /\ b_isAIThinking
    /\ b_turnIndex = b_ai.turnIndex
    /\ b_currentWeek = b_ai.week
    /\ b_history = b_ai.hist
    /\ b_playerTypes[ROLES[b_ai.turnIndex + 1]] = "AI"

\* the second timer commits the decision
AICommit == b_ai.phase = "shown" /\ b_ai'.phase = "idle"

\* C34: while a request of the AI effect or one of its timers is outstanding
\* the game is in PLAY with the turn, the week and the history of the
\* request; no request is issued while one is outstanding; and the second
\* timer adds to the history the entry of the role and week of the request,
\* with the order of the decision and the transition computed from the
\* history of the request
C34_DecisionAppliedInPlace ==
    [][variant = "beer" =>
          /\ AIPending => AIInPlace
          /\ AIPending' => AIInPlace'
          /\ b_ai'.phase = "pending" => ~AIPending
          /\ AICommit =>
                /\ b_history' =
                      Append(b_history,
                             BeerEntry(BeerTransition(b_ai.hist, b_ai.turnIndex,
                                                      b_ai.week),
                                       b_ai.decision.order))
                /\ b_history'[Len(b_history')].week = b_currentWeek
                /\ b_history'[Len(b_history')].roleId = ROLES[b_turnIndex + 1]]_vars

\* the wholesaler is played by the AI; its decision of week 1, an order that
\* differs from the demand it received, is the last entry of the history
C34_Witness ==
    /\ variant \in {"beer"}
    /\ b_playerTypes["wholesaler"] = "AI"
    /\ b_ai.phase = "idle"
    /\ b_ai.turnIndex = 1
    /\ b_ai.decision.src # "none"
    /\ b_gameState = "HANDOFF"
    /\ b_history[Len(b_history)].roleId = "wholesaler"
    /\ b_history[Len(b_history)].week = 1
    /\ b_history[Len(b_history)].orderPlaced = b_ai.decision.order
    /\ b_history[Len(b_history)].orderPlaced # 4

\* ---------------------------------------------------------------------
\* C35: an echelon that holds one resource never ends a settlement with
\* stock and backlog at once.

\* the transitions of echelons with one stock and one backlog: every role of
\* the Beer Game, the suppliers of the other games and the distribution
\* centre of the fast-food game, ingredient by ingredient
SingleResource(t) ==
    \/ variant = "beer"
    \/ variant = "food"
    \/ variant \in {"nvidia", "nv2"} /\ t.echelon \in {"cowos", "hbm"}

\* C35: after every settlement of an echelon with a single resource the new
\* inventory and the new backlog are not negative and the smaller of the two
\* is 0
C35_NoStockWithBacklog ==
    [](\A t \in tx :
          SingleResource(t) =>
              /\ t.newInventory >= 0
              /\ t.newBacklog >= 0
              /\ Min2(t.newInventory, t.newBacklog) = 0)

\* a settlement of the fast-food game in which a supplier shipped a part of
\* what it owed and the distribution centre kept stock of an ingredient
C35_Witness ==
    /\ variant \in {"food"}
    /\ \E t \in tx : /\ t.echelon \in {"aryzta", "tyson"}
                     /\ t.shipped > 0
                     /\ t.newBacklog > 0
                     /\ t.newInventory = 0
    /\ \E t \in tx : /\ t.echelon = "dc"
                     /\ t.newInventory > 0
                     /\ t.newBacklog = 0

\* ---------------------------------------------------------------------
\* C36: the player of the Nvidia games assembles one unit from one CoWoS
\* and one HBM component.

\* the transition of the player for one component in the last settlement
PlayerTx(c) == {t \in tx : t.echelon = "player" /\ t.kind = c}

\* what the player holds of a component once the deliveries of the week are in
Available(t) == t.priorInventory + t.arriving

\* C36: in every settlement of the Nvidia games the player fulfils the
\* minimum of the CoWoS available, the HBM available and demand plus backlog;
\* each component inventory is what was available less the fulfilled
\* quantity, the backlog is what was demanded less the fulfilled quantity,
\* and a positive backlog leaves one of the two inventories at 0
C36_AssemblyConstraint ==
    [](variant \in {"nvidia", "nv2"} =>
          \A tc \in PlayerTx("cowos") : \A th \in PlayerTx("hbm") :
              LET fulfilled == Min2(Min2(Available(tc), Available(th)),
                                    tc.incoming + tc.priorBacklog)
              IN  /\ tc.shipped = fulfilled
                  /\ th.shipped = fulfilled
                  /\ tc.newInventory = Available(tc) - fulfilled
                  /\ th.newInventory = Available(th) - fulfilled
                  /\ tc.newBacklog = tc.incoming + tc.priorBacklog - fulfilled
                  /\ th.newBacklog = tc.newBacklog
                  /\ tc.newBacklog > 0 =>
                        tc.newInventory = 0 \/ th.newInventory = 0)

\* a settlement of the second Nvidia game in which one component ran out:
\* the player fulfilled a part of the demand, has a backlog and still holds
\* stock of the other component
C36_Witness ==
    /\ variant \in {"nv2"}
    /\ \E tc \in PlayerTx("cowos") : \E th \in PlayerTx("hbm") :
          /\ tc.shipped > 0
          /\ tc.newBacklog > 0
          /\ Min2(tc.newInventory, th.newInventory) = 0
          /\ Max2(tc.newInventory, th.newInventory) > 0
          /\ v_blackwellBacklog = tc.newBacklog
          /\ v_inventory["cowos"] = tc.newInventory
          /\ v_inventory["hbm"] = th.newInventory

\* ---------------------------------------------------------------------
\* C37: the phases of a week of the fast-food game.

\* the successor of each phase
NextPhase ==
    [PLAYER |-> "AI_ARYZTA", AI_ARYZTA |-> "AI_TYSON",
     AI_TYSON |-> "PROCESSING", PROCESSING |-> "PLAYER"]

\* the position of startTurnSequence that goes with each phase
PhaseOfPc ==
    [idle |-> "PLAYER", aryzta |-> "AI_ARYZTA", tyson |-> "AI_TYSON",
     processing |-> "PROCESSING"]

\* resolveWeek has run: a week was added to the settled weeks
FoodWeekResolved == Len(ledger') = Len(ledger) + 1

\* the supplier records of the settlement carry the order of the player
OrderUsed(order) ==
    /\ \E t \in tx' : t.echelon = "aryzta" /\ t.incoming = order["buns"]
    /\ \E t \in tx' : t.echelon = "tyson"
                      /\ t.incoming = order["beef"] + order["fish"]

\* C37: turnPhase changes only to the next phase of the cycle PLAYER,
\* AI_ARYZTA, AI_TYSON, PROCESSING, PLAYER and always matches the position
\* of startTurnSequence; a week is resolved on the step from PROCESSING to
\* PLAYER and on no other step; a sequence starts only in phase PLAYER with
\* no sequence running; and the player order cannot change from the start
\* of the sequence until resolveWeek has used it
C37_PhaseCycle ==
    [][variant = "food" =>
          /\ f_turnPhase' # f_turnPhase => f_turnPhase' = NextPhase[f_turnPhase]
          /\ f_turnPhase' = PhaseOfPc[f_seq'.pc]
          /\ FoodWeekResolved <=>
                (f_turnPhase = "PROCESSING" /\ f_turnPhase' = "PLAYER")
          /\ (f_seq'.pc = "aryzta" /\ f_seq # f_seq') =>
                f_turnPhase = "PLAYER" /\ f_seq.pc = "idle"
          /\ (f_turnPhase # "PLAYER" /\ f_turnPhase' # "PLAYER") =>
                f_playerOrder' = f_playerOrder
          /\ (f_turnPhase = "PLAYER" /\ f_turnPhase' # "PLAYER") =>
                f_playerOrder' = f_playerOrder
          /\ FoodWeekResolved =>
                /\ OrderUsed(f_playerOrder)
                /\ f_playerOrder' = generateEmptyOrder]_vars

\* a cycle has come back to PLAYER and the suppliers received the order the
\* player had entered
C37_Witness ==
    /\ variant \in {"food"}
    /\ f_turnPhase = "PLAYER"
    /\ f_seq.pc = "idle"
    /\ f_seq.tysonDecision.src # "none"
    /\ Len(ledger) = 1
    /\ f_week = 2
    /\ f_playerOrder = generateEmptyOrder
    /\ \E t \in tx : t.echelon = "aryzta" /\ t.week = 1 /\ t.incoming > 0
    /\ \E t \in tx : t.echelon = "tyson" /\ t.week = 1 /\ t.incoming > 0

\* ---------------------------------------------------------------------
\* C38: the lookups of the Beer Game into earlier weeks find their entry.

\* the role whose order of week - shippingDelay arrives at a role: the
\* upstream neighbour, the manufacturer for itself
ShipmentSource(roleIndex) ==
    IF roleIndex = 3 THEN ROLES[4] ELSE ROLES[roleIndex + 2]

\* the three lookups of processTurn and of the turn screen for a role and a
\* week find an entry in the history
LookupsHit(h, roleIndex, week) ==
    /\ hasHistoryEntry(h, week - 1, ROLES[roleIndex + 1])
    /\ hasHistoryEntry(h, week - shippingDelay, ShipmentSource(roleIndex))
    /\ roleIndex > 0 =>
          hasHistoryEntry(h, week - orderDelay, ROLES[roleIndex])

\* C38: whenever a role of the Beer Game is at its turn in week w >= 1, and
\* whenever a request of the AI effect is outstanding, the history in use
\* holds the entry of the role for w - 1, of its downstream neighbour for
\* w - 1 and of its upstream neighbour (of the manufacturer itself) for
\* w - 2; every entry added to the history is computed from lookups that hit
C38_DelayLookupsHit ==
    /\ [](variant = "beer" =>
             /\ b_currentWeek >= 1
             /\ b_turnIndex \in 0..3
             /\ b_gameState \in {"HANDOFF", "PLAY"} =>
                   LookupsHit(b_history, b_turnIndex, b_currentWeek)
             /\ AIPending => LookupsHit(b_ai.hist, b_ai.turnIndex, b_ai.week))
    /\ [][(variant = "beer" /\ Len(b_history') = Len(b_history) + 1) =>
             /\ LookupsHit(b_history, b_turnIndex, b_currentWeek)
             /\ b_history'[Len(b_history')] =
                   BeerEntry(BeerTransition(b_history, b_turnIndex,
                                            b_currentWeek),
                             b_history'[Len(b_history')].orderPlaced)]_vars

\* the manufacturer is at its turn in week 3: its own order of week 1, its
\* state of week 2 and the distributor's order of week 2 are looked up
C38_Witness ==
    /\ variant \in {"beer"}
    /\ b_gameState = "PLAY"
    /\ b_currentWeek = 3
    /\ b_turnIndex = 3
    /\ Len(b_history) = 8 + 4 + 4 + 3
    /\ LookupsHit(b_history, b_turnIndex, b_currentWeek)
=============================================================================
